---- MODULE Spec2Model ----
(***************************************************************************)
(* Model of the chunked transfer engine of celestial_works:                *)
(* ChunkTransferManager (chunk_transfer_manager.cc) on top of the          *)
(* TransferStatusDB store (transfer_status_db.cc).                         *)
(*                                                                         *)
(* Threads are modelled at the granularity of the critical sections of     *)
(* the code: a facade call is one step, a worker takes one step per        *)
(* stage of ProcessTransferTask.                                           *)
(***************************************************************************)
EXTENDS Integers, Sequences, FiniteSets, TLC

-----------------------------------------------------------------------------
(* Bounds of the model *)

NumWorkers == 2
ChunkSize == 2
MaxRetries == 1
MaxFaults == 1
MaxTransfers == 2
MaxResumes == 1
MaxRestarts == 1
NumCallers == 2
MaxPlanChunkSize == 5
MaxPlanFileSize == 10
MaxRetryAttempts == 3

Workers == 1..NumWorkers
Callers == 1..NumCallers
Tasks == {"t1", "t2"}
SourcePaths == {"s0", "s1", "s2"}
MissingPath == "missing"
NullCallback == "null"
FirstCallbacks == [progress |-> "pA", completion |-> "cA"]
SecondCallbacks == [progress |-> "pB", completion |-> "cB"]
NoTaskId == ""

Min(a, b) == IF a < b THEN a ELSE b

VARIABLES
    chunk_size_,        \* the size of a chunk in bytes
    max_retries_        \* the retries of a chunk after its first attempt

config == <<chunk_size_, max_retries_>>

-----------------------------------------------------------------------------
(* The file system: source files are fixed, a path holds a file or not *)

\* "s0" is empty, "s1" spans three chunks, "s2" two; their last chunk is a short one
SourceSize(path) ==
    IF path = "s0" THEN 0
    ELSE IF path = "s1" THEN 2 * ChunkSize + 1
    ELSE ChunkSize + 1

\* byte i of every source carries the value i, so that every range differs
SourceData(path) == [i \in 1..SourceSize(path) |-> i]

NoFile == [exists |-> FALSE, data |-> <<>>]
File(bytes) == [exists |-> TRUE, data |-> bytes]

DestPath(task_id) == IF task_id = "t1" THEN "d1" ELSE "d2"
DestPaths == {DestPath(t) : t \in Tasks}
MaxChunks == (SourceSize("s1") + ChunkSize - 1) \div ChunkSize

\* the digest of a byte string; "" is what the code returns when it cannot open
NoChecksum == [ok |-> FALSE, digest |-> <<>>]
Md5(bytes) == [ok |-> TRUE, digest |-> bytes]

CalculateFileChecksum(file) == IF file.exists THEN Md5(file.data) ELSE NoChecksum

CalculateChunkChecksum(path, offset, size) ==
    IF path \in SourcePaths
    THEN Md5(SubSeq(SourceData(path), offset + 1, Min(offset + size, SourceSize(path))))
    ELSE NoChecksum

RECURSIVE AnalyzeFullChunks(_, _, _, _)
\* a planning that gives every chunk the full chunk size, the last one too
AnalyzeFullChunks(source_path, file_size, current_offset, chunk_index) ==
    IF current_offset < file_size
    THEN << [chunk_index |-> chunk_index,
             offset |-> current_offset,
             chunk_size |-> chunk_size_,
             actual_size |-> chunk_size_,
             status |-> "PENDING",
             retry_count |-> 0,
             md5_hash |-> CalculateChunkChecksum(source_path, current_offset,
                                                 chunk_size_)] >>
         \o AnalyzeFullChunks(source_path, file_size, current_offset + chunk_size_,
                              chunk_index + 1)
    ELSE << >>

RECURSIVE AnalyzeFileAndCreateChunks(_, _, _, _)
AnalyzeFileAndCreateChunks(source_path, file_size, current_offset, chunk_index) ==
    IF current_offset < file_size
    THEN LET size == Min(chunk_size_, file_size - current_offset)
         IN  << [chunk_index |-> chunk_index,
                 offset |-> current_offset,
                 chunk_size |-> size,
                 actual_size |-> size,
                 status |-> "PENDING",
                 retry_count |-> 0,
                 md5_hash |-> CalculateChunkChecksum(source_path, current_offset, size)] >>
             \o AnalyzeFileAndCreateChunks(source_path, file_size,
                                           current_offset + size, chunk_index + 1)
    ELSE << >>

-----------------------------------------------------------------------------
VARIABLES
    initialized,        \* initialized_
    transfer_tasks,     \* transfer_tasks_: task_id -> TransferTaskInfo
    task_queue,         \* task_queue_: FIFO of task ids
    db_rows,            \* rows of transfer_tasks with their transfer_chunks rows
    temp_files,         \* <dest>.chunk.<i> on disk
    dest_files,         \* the destination files on disk
    worker,             \* per worker thread: position and locals of the run
    active_transfers,
    total_transfers,
    completed_transfers,
    failed_transfers,
    faults,             \* I/O faults the environment has injected so far
    resumes,            \* ResumeTransfer calls so far
    shutdown_flag,      \* shutdown_flag_
    restarts,           \* manager instances that have ended so far
    ret,                \* what the last facade call returned
    callers,            \* client threads inside a facade call
    mutex,              \* the thread that holds tasks_mutex_, queue_mutex_, db_mutex_
    calc                \* arguments and result of a function applied on its own

vars == <<initialized, transfer_tasks, task_queue, db_rows, temp_files, dest_files,
          worker, active_transfers, total_transfers, completed_transfers,
          failed_transfers, faults, resumes, shutdown_flag, restarts, ret, callers,
          chunk_size_, max_retries_, mutex, calc>>

\* state the transfer steps never touch
apart == <<mutex, calc>>

lifecycle == <<initialized, shutdown_flag, restarts>>
counters == <<active_transfers, total_transfers, completed_transfers, failed_transfers>>
disk == <<temp_files, dest_files>>

\* the value a facade call returns: bool, status or percentage by the call
NoReturn == [op |-> "none", task_id |-> NoTaskId, ok |-> FALSE, status |-> "", progress |-> 0]
Returned(op, task_id, ok) == [NoReturn EXCEPT !.op = op, !.task_id = task_id, !.ok = ok]

IdleCaller == [pc |-> "idle", task_id |-> NoTaskId, source_path |-> "", db_task_id |-> 0,
               cb |-> FirstCallbacks, result |-> "none", op |-> ""]

NoThread == 0
FreeMutexes == [m \in {"tasks_mutex", "queue_mutex", "db_mutex"} |-> NoThread]
NoCalc == [source_path |-> "", file_size |-> 0, chunks |-> << >>, done |-> FALSE]

IdleWorker == [pc |-> "idle", task_id |-> NoTaskId, idx |-> 0, retry |-> 0,
               success |-> TRUE, paused_requested |-> FALSE, error_message |-> "",
               attempts |-> <<>>, merged |-> FALSE, completions |-> <<>>]

Init ==
    /\ initialized = FALSE
    /\ transfer_tasks = << >>
    /\ task_queue = << >>
    /\ db_rows = << >>
    /\ temp_files = [d \in DestPaths |-> [i \in 1..MaxChunks |-> NoFile]]
    /\ dest_files = [d \in DestPaths |-> NoFile]
    /\ worker = [w \in Workers |-> [IdleWorker EXCEPT !.pc = "off"]]
    /\ active_transfers = 0
    /\ total_transfers = 0
    /\ completed_transfers = 0
    /\ failed_transfers = 0
    /\ faults = 0
    /\ resumes = 0
    /\ shutdown_flag = FALSE
    /\ restarts = 0
    /\ ret = NoReturn
    /\ callers = [c \in Callers |-> IdleCaller]
    /\ chunk_size_ = ChunkSize
    /\ max_retries_ = MaxRetries
    /\ mutex = FreeMutexes
    /\ calc = NoCalc

-----------------------------------------------------------------------------
(* TransferStatusDB *)

DbHasPath(file_path) == \E id \in 1..Len(db_rows) : db_rows[id].file_path = file_path

DbTotalChunks(file_size, chunk_size) == (file_size + chunk_size - 1) \div chunk_size

\* the row CreateTransferTask inserts, with the chunk rows of CreateChunks
DbNewRow(file_path, file_size, chunk_size) ==
    [file_path |-> file_path,
     file_size |-> file_size,
     total_chunks |-> DbTotalChunks(file_size, chunk_size),
     status |-> "PENDING",
     chunks |-> [i \in 1..DbTotalChunks(file_size, chunk_size) |->
                    [status |-> "PENDING", md5_hash |-> ""]]]

DbUpdateTransferStatus(rows, db_task_id, status) ==
    IF db_task_id \in 1..Len(rows)
    THEN [rows EXCEPT ![db_task_id].status = status]
    ELSE rows

DbUpdateChunkStatus(rows, db_task_id, chunk_index, status, md5_hash) ==
    IF db_task_id \in 1..Len(rows) /\ chunk_index + 1 \in 1..Len(rows[db_task_id].chunks)
    THEN [rows EXCEPT ![db_task_id].chunks[chunk_index + 1] =
                          [status |-> status, md5_hash |-> md5_hash]]
    ELSE rows

-----------------------------------------------------------------------------
(* ChunkTransferManager: helpers shared by the facade and the workers *)

\* UpdateTaskStatus writes the store row first, then the in-memory status
UpdatedStore(task_id, status) ==
    IF task_id \in DOMAIN transfer_tasks /\ transfer_tasks[task_id].db_task_id > 0
    THEN DbUpdateTransferStatus(db_rows, transfer_tasks[task_id].db_task_id, status)
    ELSE db_rows

UpdatedTasks(task_id, status) ==
    IF task_id \in DOMAIN transfer_tasks
    THEN [transfer_tasks EXCEPT ![task_id].status = status]
    ELSE transfer_tasks

UpdateTaskStatus(task_id, status) ==
    /\ db_rows' = UpdatedStore(task_id, status)
    /\ transfer_tasks' = UpdatedTasks(task_id, status)

\* the TransferTaskInfo CreateTransferTask builds for a new task
NewTaskInfo(task_id, source_path, dest_path, db_task_id, cb) ==
    [task_id |-> task_id,
     db_task_id |-> db_task_id,
     source_path |-> source_path,
     dest_path |-> dest_path,
     file_size |-> SourceSize(source_path),
     status |-> "PENDING",
     transferred_bytes |-> 0,
     chunks |-> AnalyzeFileAndCreateChunks(source_path, SourceSize(source_path), 0, 0),
     file_checksum |-> CalculateFileChecksum(File(SourceData(source_path))),
     progress_callback |-> cb.progress,
     completion_callback |-> cb.completion]

-----------------------------------------------------------------------------
(* Facade *)

\* the values the calls return, as functions of the state they meet
StartTransferResult(task_id, source_path) ==
    /\ initialized
    /\ source_path \in SourcePaths
    /\ IF task_id \in DOMAIN transfer_tasks
       THEN transfer_tasks[task_id].status = "PAUSED"
       ELSE ~DbHasPath(source_path)

\* a lookup that finds every task id
KnownTaskResultAlways(task_id) == TRUE

KnownTaskResult(task_id) == task_id \in DOMAIN transfer_tasks

\* the percentage GetTransferProgress computes
TransferProgress(task_id) ==
    IF task_id \in DOMAIN transfer_tasks /\ transfer_tasks[task_id].file_size > 0
    THEN (transfer_tasks[task_id].transferred_bytes * 100) \div transfer_tasks[task_id].file_size
    ELSE 0

\* queue_mutex_ is free: no worker sits between the wait predicate and the wait
QueueLockFree == \A w \in Workers : worker[w].pc # "blocking"

Initialize ==
    /\ ~initialized
    /\ \A w \in Workers : worker[w].pc = "off"
    /\ initialized' = TRUE
    /\ shutdown_flag' = FALSE
    /\ worker' = [w \in Workers |-> IdleWorker]
    /\ ret' = Returned("Initialize", NoTaskId, TRUE)
    /\ chunk_size_' = ChunkSize
    /\ max_retries_' = MaxRetries
    /\ UNCHANGED <<apart, transfer_tasks, task_queue, db_rows, disk, counters, faults, resumes,
                   restarts, callers>>

\* a restart that re-enqueues the task but keeps the callbacks of the first start
StartPausedKeepsCallbacks(task_id, cb) ==
    /\ total_transfers < MaxTransfers
    /\ QueueLockFree
    /\ task_queue' = Append(task_queue, task_id)
    /\ total_transfers' = total_transfers + 1
    /\ UNCHANGED <<lifecycle, config, apart, callers, transfer_tasks, db_rows, disk, worker,
                   active_transfers, completed_transfers, failed_transfers, faults, resumes>>

\* StartTransfer on a task that exists and is PAUSED: reattach and re-enqueue
StartPaused(task_id, cb) ==
    /\ total_transfers < MaxTransfers
    /\ QueueLockFree
    /\ transfer_tasks' = [transfer_tasks EXCEPT
                             ![task_id].progress_callback = cb.progress,
                             ![task_id].completion_callback = cb.completion]
    /\ task_queue' = Append(task_queue, task_id)
    /\ total_transfers' = total_transfers + 1
    /\ UNCHANGED <<lifecycle, config, apart, callers, db_rows, disk, worker, active_transfers,
                   completed_transfers, failed_transfers, faults, resumes>>

\* StartTransfer on an unknown task id: plan, persist, register and enqueue
StartNew(task_id, source_path, cb) ==
    /\ total_transfers < MaxTransfers
    /\ QueueLockFree
    /\ db_rows' = Append(db_rows, DbNewRow(source_path, SourceSize(source_path), chunk_size_))
    /\ transfer_tasks' = transfer_tasks @@
           (task_id :> NewTaskInfo(task_id, source_path, DestPath(task_id),
                                   Len(db_rows) + 1, cb))
    /\ task_queue' = Append(task_queue, task_id)
    /\ total_transfers' = total_transfers + 1
    /\ UNCHANGED <<lifecycle, config, apart, callers, disk, worker, active_transfers,
                   completed_transfers, failed_transfers, faults, resumes>>

\* a rejected call that leaves the task id on the queue all the same
RejectedButQueued ==
    /\ task_queue' = Append(task_queue, "t1")
    /\ UNCHANGED <<lifecycle, config, apart, callers, transfer_tasks, db_rows, disk, worker,
                   counters, faults, resumes>>

\* a call that returns false without any effect
Rejected ==
    UNCHANGED <<lifecycle, config, apart, callers, transfer_tasks, task_queue, db_rows, disk, worker,
              counters, faults, resumes>>

StartTransfer(task_id, source_path, cb) ==
    /\ ret' = Returned("StartTransfer", task_id, StartTransferResult(task_id, source_path))
    /\ IF ~initialized \/ source_path \notin SourcePaths
       THEN Rejected
       ELSE IF task_id \in DOMAIN transfer_tasks
       THEN IF transfer_tasks[task_id].status = "PAUSED"
            THEN StartPaused(task_id, cb)
            ELSE Rejected
       ELSE IF DbHasPath(source_path)
       THEN Rejected
       ELSE StartNew(task_id, source_path, cb)

\* a pause that sets a task that is already PAUSED back to DOWNLOADING
PauseTransferToggles(task_id) ==
    /\ ret' = Returned("PauseTransfer", task_id, KnownTaskResult(task_id))
    /\ IF task_id \notin DOMAIN transfer_tasks
       THEN Rejected
       ELSE /\ UpdateTaskStatus(task_id, IF transfer_tasks[task_id].status = "PAUSED"
                                         THEN "DOWNLOADING" ELSE "PAUSED")
            /\ UNCHANGED <<lifecycle, config, apart, callers, task_queue, disk, worker, counters,
                           faults, resumes>>

PauseTransfer(task_id) ==
    /\ ret' = Returned("PauseTransfer", task_id, KnownTaskResult(task_id))
    /\ IF task_id \notin DOMAIN transfer_tasks
       THEN Rejected
       ELSE /\ UpdateTaskStatus(task_id, "PAUSED")
            /\ UNCHANGED <<lifecycle, config, apart, callers, task_queue, disk, worker, counters,
                           faults, resumes>>

\* a resume that sets the status back but does not re-enqueue the task
ResumeTransferNoEnqueue(task_id) ==
    /\ ret' = Returned("ResumeTransfer", task_id, KnownTaskResult(task_id))
    /\ IF task_id \notin DOMAIN transfer_tasks
       THEN Rejected
       ELSE /\ resumes < MaxResumes
            /\ UpdateTaskStatus(task_id, "DOWNLOADING")
            /\ resumes' = resumes + 1
            /\ UNCHANGED <<lifecycle, config, apart, callers, task_queue, disk, worker, counters, faults>>

ResumeTransfer(task_id) ==
    /\ ret' = Returned("ResumeTransfer", task_id, KnownTaskResult(task_id))
    /\ IF task_id \notin DOMAIN transfer_tasks
       THEN Rejected
       ELSE /\ resumes < MaxResumes
            /\ QueueLockFree
            /\ UpdateTaskStatus(task_id, "DOWNLOADING")
            /\ task_queue' = Append(task_queue, task_id)
            /\ resumes' = resumes + 1
            /\ UNCHANGED <<lifecycle, config, apart, callers, disk, worker, counters, faults>>

\* a cancel that also removes the temp artifacts of the task
CancelTransferDeletes(task_id) ==
    /\ ret' = Returned("CancelTransfer", task_id, KnownTaskResult(task_id))
    /\ IF task_id \notin DOMAIN transfer_tasks
       THEN Rejected
       ELSE /\ UpdateTaskStatus(task_id, "PAUSED")
            /\ temp_files' = [temp_files EXCEPT ![transfer_tasks[task_id].dest_path] =
                                  [i \in 1..MaxChunks |-> NoFile]]
            /\ UNCHANGED <<lifecycle, config, apart, callers, task_queue, dest_files, worker,
                           counters, faults, resumes>>

CancelTransfer(task_id) ==
    /\ ret' = Returned("CancelTransfer", task_id, KnownTaskResult(task_id))
    /\ IF task_id \notin DOMAIN transfer_tasks
       THEN Rejected
       ELSE /\ UpdateTaskStatus(task_id, "PAUSED")
            /\ UNCHANGED <<lifecycle, config, apart, callers, task_queue, disk, worker, counters,
                           faults, resumes>>

\* the queries change nothing but what the caller gets back
GetTransferProgress(task_id) ==
    /\ ret' = [NoReturn EXCEPT !.op = "GetTransferProgress", !.task_id = task_id,
                               !.progress = TransferProgress(task_id)]
    /\ Rejected

GetTransferStatus(task_id) ==
    /\ ret' = [NoReturn EXCEPT !.op = "GetTransferStatus", !.task_id = task_id,
                               !.status = IF task_id \in DOMAIN transfer_tasks
                                          THEN transfer_tasks[task_id].status
                                          ELSE "FAILED"]
    /\ Rejected

GetTransferInfo(task_id) ==
    /\ ret' = Returned("GetTransferInfo", task_id, KnownTaskResult(task_id))
    /\ Rejected

-----------------------------------------------------------------------------
(* Worker threads: WorkerThread and the stages of ProcessTransferTask *)

TaskOf(w) == transfer_tasks[worker[w].task_id]
ChunkOf(w) == TaskOf(w).chunks[worker[w].idx]

\* the bytes TransferChunk copies from the source for a chunk
ChunkBytes(task, chunk) ==
    SubSeq(SourceData(task.source_path), chunk.offset + 1, chunk.offset + chunk.actual_size)

VerifyChunk(task, chunk) ==
    LET file == temp_files[task.dest_path][chunk.chunk_index + 1]
    IN  /\ file.exists
        /\ Len(file.data) = chunk.actual_size
        /\ CalculateFileChecksum(file) = chunk.md5_hash

\* MergeChunks from chunk position i on: the destination so far and whether
\* every artifact could be opened
RECURSIVE MergeFrom(_, _, _)
MergeFrom(task, i, bytes) ==
    IF i > Len(task.chunks)
    THEN [ok |-> TRUE, file |-> File(bytes)]
    ELSE LET file == temp_files[task.dest_path][task.chunks[i].chunk_index + 1]
         IN  IF ~file.exists
             THEN [ok |-> FALSE, file |-> File(bytes)]
             ELSE MergeFrom(task, i + 1, bytes \o file.data)

\* a merge that refuses a task without chunks
MergeChunksNeedsChunk(task) ==
    IF task.chunks = << >> THEN [ok |-> FALSE, file |-> NoFile] ELSE MergeFrom(task, 1, << >>)

\* a merge that appends the artifacts from the last chunk to the first
RECURSIVE MergeDownFrom(_, _, _)
MergeDownFrom(task, i, bytes) ==
    IF i < 1
    THEN [ok |-> TRUE, file |-> File(bytes)]
    ELSE LET file == temp_files[task.dest_path][task.chunks[i].chunk_index + 1]
         IN  IF ~file.exists
             THEN [ok |-> FALSE, file |-> File(bytes)]
             ELSE MergeDownFrom(task, i - 1, bytes \o file.data)

MergeChunksBackwards(task) == MergeDownFrom(task, Len(task.chunks), << >>)

MergeChunks(task) == MergeFrom(task, 1, << >>)

VerifyFinalFile(task, file) ==
    /\ file.exists
    /\ Len(file.data) = task.file_size
    /\ CalculateFileChecksum(file) = task.file_checksum

\* a cleanup that removes nothing
CleanupTempFilesKeepsAll(task) == temp_files

CleanupTempFiles(task) ==
    [temp_files EXCEPT ![task.dest_path] =
        [i \in 1..MaxChunks |->
            IF \E k \in 1..Len(task.chunks) : task.chunks[k].chunk_index + 1 = i
            THEN NoFile
            ELSE temp_files[task.dest_path][i]]]

\* a notification that reports successes only
NotifyCompletionOnSuccess(task, success, error, invoked) ==
    IF task.completion_callback # NullCallback /\ success
    THEN Append(invoked, [callback |-> task.completion_callback,
                          success |-> success, error |-> error])
    ELSE invoked

\* NotifyCompletion: the invocations of the completion callback, with one more
NotifyCompletion(task, success, error, invoked) ==
    IF task.completion_callback # NullCallback
    THEN Append(invoked, [callback |-> task.completion_callback,
                          success |-> success, error |-> error])
    ELSE invoked

\* the pause test at the head of the chunk loop
PauseObserved(task_id) ==
    task_id \in DOMAIN transfer_tasks /\ transfer_tasks[task_id].status = "PAUSED"

\* a worker that takes the front of the queue wherever it is in its run
DequeueAnytime(w) ==
    /\ worker[w].pc \in {"idle", "done", "loop", "transfer", "verify", "finish", "cleanup"}
    /\ QueueLockFree
    /\ ~shutdown_flag
    /\ task_queue # << >>
    /\ task_queue' = Tail(task_queue)
    /\ IF Head(task_queue) \notin DOMAIN transfer_tasks
       THEN /\ worker' = [worker EXCEPT ![w] =
                              [IdleWorker EXCEPT !.pc = "done", !.task_id = Head(task_queue)]]
            /\ UNCHANGED <<transfer_tasks, db_rows, active_transfers>>
       ELSE /\ active_transfers' = active_transfers + 1
            /\ UpdateTaskStatus(Head(task_queue), "DOWNLOADING")
            /\ worker' = [worker EXCEPT ![w] =
                              [IdleWorker EXCEPT !.pc = "loop", !.idx = 1,
                                                 !.task_id = Head(task_queue)]]
    /\ UNCHANGED <<lifecycle, config, apart, ret, callers, disk, total_transfers, completed_transfers,
                   failed_transfers, faults, resumes>>

\* WorkerThread takes the front of the queue and enters ProcessTransferTask,
\* which runs up to the chunk loop
Dequeue(w) ==
    /\ worker[w].pc \in {"idle", "done"}
    /\ QueueLockFree
    /\ ~shutdown_flag
    /\ task_queue # << >>
    /\ task_queue' = Tail(task_queue)
    /\ IF Head(task_queue) \notin DOMAIN transfer_tasks
       THEN /\ worker' = [worker EXCEPT ![w] =
                              [IdleWorker EXCEPT !.pc = "done", !.task_id = Head(task_queue)]]
            /\ UNCHANGED <<transfer_tasks, db_rows, active_transfers>>
       ELSE /\ active_transfers' = active_transfers + 1
            /\ UpdateTaskStatus(Head(task_queue), "DOWNLOADING")
            /\ worker' = [worker EXCEPT ![w] =
                              [IdleWorker EXCEPT !.pc = "loop", !.idx = 1,
                                                 !.task_id = Head(task_queue)]]
    /\ UNCHANGED <<lifecycle, config, apart, ret, callers, disk, total_transfers, completed_transfers,
                   failed_transfers, faults, resumes>>

\* head of one iteration of the chunk loop: pause check, shutdown check, skip of
\* completed chunks
CheckChunk(w) ==
    /\ worker[w].pc = "loop"
    /\ worker[w].idx <= Len(TaskOf(w).chunks)
    /\ worker' = [worker EXCEPT ![w] =
          IF PauseObserved(worker[w].task_id)
          THEN [@ EXCEPT !.paused_requested = TRUE, !.success = FALSE, !.pc = "finish"]
          ELSE IF shutdown_flag
          THEN [@ EXCEPT !.success = FALSE, !.pc = "finish", !.error_message = "interrupted"]
          ELSE IF ChunkOf(w).status = "COMPLETED"
          THEN [@ EXCEPT !.idx = @ + 1]
          ELSE [@ EXCEPT !.retry = 0, !.pc = "transfer"]]
    /\ UNCHANGED <<lifecycle, config, apart, ret, callers, transfer_tasks, task_queue, db_rows, disk, counters,
                   faults, resumes>>

\* a retry loop that runs one time fewer: for (retry = 0; retry < max_retries_; ..)
AttemptFailedOneFewer(w, log) ==
    /\ transfer_tasks' = [transfer_tasks EXCEPT
           ![worker[w].task_id].chunks[worker[w].idx].retry_count = @ + 1]
    /\ db_rows' = DbUpdateChunkStatus(db_rows, TaskOf(w).db_task_id,
                                      ChunkOf(w).chunk_index, "FAILED", "")
    /\ worker' = [worker EXCEPT ![w] =
          IF worker[w].retry + 1 < max_retries_
          THEN [@ EXCEPT !.retry = @ + 1, !.pc = "transfer", !.attempts = log]
          ELSE [@ EXCEPT !.success = FALSE, !.pc = "finish", !.attempts = log,
                         !.error_message = "chunk transfer failed"]]

\* what the retry loop does after a failed attempt
AttemptFailed(w, log) ==
    /\ transfer_tasks' = [transfer_tasks EXCEPT
           ![worker[w].task_id].chunks[worker[w].idx].retry_count = @ + 1]
    /\ db_rows' = DbUpdateChunkStatus(db_rows, TaskOf(w).db_task_id,
                                      ChunkOf(w).chunk_index, "FAILED", "")
    /\ worker' = [worker EXCEPT ![w] =
          IF worker[w].retry + 1 <= max_retries_
          THEN [@ EXCEPT !.retry = @ + 1, !.pc = "transfer", !.attempts = log]
          ELSE [@ EXCEPT !.success = FALSE, !.pc = "finish", !.attempts = log,
                         !.error_message = "chunk transfer failed"]]

\* TransferChunk: copy the byte range of the chunk to its temp artifact
TransferChunk(w, fault) ==
    /\ worker[w].pc = "transfer"
    /\ IF fault
       THEN /\ faults < MaxFaults
            /\ faults' = faults + 1
            /\ temp_files' = [temp_files EXCEPT
                   ![TaskOf(w).dest_path][ChunkOf(w).chunk_index + 1] = NoFile]
            /\ AttemptFailed(w, Append(worker[w].attempts, ChunkOf(w).chunk_index))
       ELSE /\ temp_files' = [temp_files EXCEPT
                   ![TaskOf(w).dest_path][ChunkOf(w).chunk_index + 1] =
                       File(ChunkBytes(TaskOf(w), ChunkOf(w)))]
            /\ transfer_tasks' = [transfer_tasks EXCEPT
                   ![worker[w].task_id].chunks[worker[w].idx].status = "COMPLETED"]
            /\ db_rows' = DbUpdateChunkStatus(db_rows, TaskOf(w).db_task_id,
                                              ChunkOf(w).chunk_index, "COMPLETED", "")
            /\ worker' = [worker EXCEPT ![w].pc = "verify",
                              ![w].attempts = Append(@, ChunkOf(w).chunk_index)]
            /\ UNCHANGED faults
    /\ UNCHANGED <<lifecycle, config, apart, ret, callers, task_queue, dest_files, counters, resumes>>

\* the cause that made the previous attempt fail is still there at the retry
RetryFails(w) ==
    /\ worker[w].pc = "transfer"
    /\ worker[w].retry > 0
    /\ faults > 0
    /\ temp_files' = [temp_files EXCEPT
           ![TaskOf(w).dest_path][ChunkOf(w).chunk_index + 1] = NoFile]
    /\ AttemptFailed(w, Append(worker[w].attempts, ChunkOf(w).chunk_index))
    /\ UNCHANGED <<lifecycle, config, apart, ret, callers, task_queue, dest_files, counters, faults, resumes>>

\* VerifyChunk on the artifact just written, then the progress update
VerifyStep(w) ==
    /\ worker[w].pc = "verify"
    /\ IF VerifyChunk(TaskOf(w), ChunkOf(w))
       THEN /\ transfer_tasks' = [transfer_tasks EXCEPT
                   ![worker[w].task_id].transferred_bytes = @ + ChunkOf(w).actual_size]
            /\ worker' = [worker EXCEPT ![w].pc = "loop", ![w].idx = @ + 1]
            /\ UNCHANGED db_rows
       ELSE AttemptFailed(w, worker[w].attempts)
    /\ UNCHANGED <<lifecycle, config, apart, ret, callers, task_queue, disk, counters, faults, resumes>>

\* after the loop: MergeChunks, then VerifyFinalFile
MergeStep(w, fault) ==
    /\ worker[w].pc = "loop"
    /\ worker[w].idx > Len(TaskOf(w).chunks)
    /\ IF fault
       THEN /\ faults < MaxFaults
            /\ faults' = faults + 1
            /\ worker' = [worker EXCEPT ![w].success = FALSE, ![w].pc = "finish",
                              ![w].merged = TRUE, ![w].error_message = "merge failed"]
            /\ UNCHANGED dest_files
       ELSE LET merge == MergeChunks(TaskOf(w))
                verified == merge.ok /\ VerifyFinalFile(TaskOf(w), merge.file)
            IN  /\ dest_files' = [dest_files EXCEPT ![TaskOf(w).dest_path] = merge.file]
                /\ worker' = [worker EXCEPT ![w].success = verified, ![w].pc = "finish",
                                  ![w].merged = TRUE,
                                  ![w].error_message =
                                      IF ~merge.ok THEN "merge failed"
                                      ELSE IF ~verified THEN "final verification failed"
                                      ELSE ""]
                /\ UNCHANGED faults
    /\ UNCHANGED <<lifecycle, config, apart, ret, callers, transfer_tasks, task_queue, db_rows, temp_files, counters,
                   resumes>>

\* an end of the run that records COMPLETED whatever the outcome
FinishAlwaysCompleted(w) ==
    /\ worker[w].pc = "finish"
    /\ IF worker[w].paused_requested
       THEN /\ active_transfers' = active_transfers - 1
            /\ worker' = [worker EXCEPT ![w].pc = "done"]
            /\ UNCHANGED <<transfer_tasks, db_rows>>
       ELSE /\ UpdateTaskStatus(worker[w].task_id, "COMPLETED")
            /\ worker' = [worker EXCEPT ![w].pc = "cleanup"]
            /\ UNCHANGED active_transfers
    /\ UNCHANGED <<lifecycle, config, apart, ret, callers, task_queue, disk, total_transfers, completed_transfers,
                   failed_transfers, faults, resumes>>

\* end of the run: a paused run returns, any other run records its final status
Finish(w) ==
    /\ worker[w].pc = "finish"
    /\ IF worker[w].paused_requested
       THEN /\ active_transfers' = active_transfers - 1
            /\ worker' = [worker EXCEPT ![w].pc = "done"]
            /\ UNCHANGED <<transfer_tasks, db_rows>>
       ELSE /\ UpdateTaskStatus(worker[w].task_id,
                                IF worker[w].success THEN "COMPLETED" ELSE "FAILED")
            /\ worker' = [worker EXCEPT ![w].pc = "cleanup"]
            /\ UNCHANGED active_transfers
    /\ UNCHANGED <<lifecycle, config, apart, ret, callers, task_queue, disk, total_transfers, completed_transfers,
                   failed_transfers, faults, resumes>>

\* CleanupTempFiles, NotifyCompletion and the counters; the worker then waits
\* on the queue again (its locals of the run stay until the next dequeue)
CleanupAndNotify(w) ==
    /\ worker[w].pc = "cleanup"
    /\ temp_files' = CleanupTempFiles(TaskOf(w))
    /\ worker' = [worker EXCEPT ![w].pc = "done",
                      ![w].completions = NotifyCompletion(TaskOf(w), worker[w].success,
                                                          worker[w].error_message, @)]
    /\ active_transfers' = active_transfers - 1
    /\ completed_transfers' = completed_transfers + (IF worker[w].success THEN 1 ELSE 0)
    /\ failed_transfers' = failed_transfers + (IF worker[w].success THEN 0 ELSE 1)
    /\ UNCHANGED <<lifecycle, config, apart, ret, callers, transfer_tasks, task_queue, db_rows, dest_files,
                   total_transfers, faults, resumes>>

WorkerStep(w) ==
    \/ Dequeue(w)
    \/ CheckChunk(w)
    \/ \E fault \in BOOLEAN : TransferChunk(w, fault)
    \/ VerifyStep(w)
    \/ \E fault \in BOOLEAN : MergeStep(w, fault)
    \/ Finish(w)
    \/ CleanupAndNotify(w)

-----------------------------------------------------------------------------
(* The engine under arbitrary use: any facade call at any time, two workers,   *)
(* I/O faults.  One task id is ever started, on the two-chunk source; "t2" is  *)
(* the unknown task id.                                                        *)

Next ==
    \/ Initialize
    \/ \E s \in {"s2", MissingPath} : StartTransfer("t1", s, FirstCallbacks)
    \/ \E t \in Tasks : PauseTransfer(t)
    \/ \E t \in Tasks : ResumeTransfer(t)
    \/ \E t \in Tasks : CancelTransfer(t)
    \/ \E w \in Workers : WorkerStep(w)

Spec == Init /\ [][Next]_vars

-----------------------------------------------------------------------------
(* A client that keeps to the protocol of the tests: it re-enqueues a task    *)
(* (ResumeTransfer, or StartTransfer again) only once the paused run is over. *)

Running(w) == worker[w].pc \in {"loop", "transfer", "verify", "finish", "cleanup"}

Occurrences(queue, task_id) == Cardinality({i \in 1..Len(queue) : queue[i] = task_id})

RunEndedPaused(task_id) ==
    /\ task_id \in DOMAIN transfer_tasks
    /\ transfer_tasks[task_id].status = "PAUSED"
    /\ Occurrences(task_queue, task_id) = 0
    /\ \A w \in Workers : worker[w].task_id = task_id => ~Running(w)

ClientStart(task_id, source_path) ==
    /\ task_id \notin DOMAIN transfer_tasks
    /\ StartTransfer(task_id, source_path, FirstCallbacks)

ClientRestart(task_id) ==
    /\ RunEndedPaused(task_id)
    /\ StartTransfer(task_id, transfer_tasks[task_id].source_path, SecondCallbacks)

ClientResume(task_id) ==
    /\ RunEndedPaused(task_id)
    /\ ResumeTransfer(task_id)

NextSeq ==
    \/ Initialize
    \/ \E s \in {"s2", MissingPath} : ClientStart("t1", s)
    \/ ClientRestart("t1")
    \/ ClientResume("t1")
    \/ \E t \in Tasks : PauseTransfer(t)
    \/ \E t \in Tasks : CancelTransfer(t)
    \/ \E w \in Workers : WorkerStep(w)

SpecSeq == Init /\ [][NextSeq]_vars

\* a client that also queries, and calls on the task id it never started ("t2");
\* no I/O faults
NextQueries ==
    \/ Initialize
    \/ ClientStart("t1", "s2")
    \/ \E t \in Tasks : PauseTransfer(t)
    \/ \E t \in Tasks : ResumeTransfer(t)
    \/ \E t \in Tasks : CancelTransfer(t)
    \/ \E t \in Tasks : GetTransferProgress(t)
    \/ \E t \in Tasks : GetTransferStatus(t)
    \/ \E t \in Tasks : GetTransferInfo(t)
    \/ \E w \in Workers : TransferChunk(w, FALSE) \/ MergeStep(w, FALSE)
    \/ \E w \in Workers : Dequeue(w) \/ CheckChunk(w) \/ VerifyStep(w) \/ Finish(w)
                                \/ CleanupAndNotify(w)

SpecQueries == Init /\ [][NextQueries]_vars

-----------------------------------------------------------------------------
(* Runs without I/O faults, with the scheduling the threads get: a worker     *)
(* that can take a step eventually takes it (the condition variable wakes a   *)
(* waiting worker after every push, a running worker is never blocked).       *)

WorkerStepNoFault(w) ==
    \/ Dequeue(w)
    \/ CheckChunk(w)
    \/ TransferChunk(w, FALSE)
    \/ VerifyStep(w)
    \/ MergeStep(w, FALSE)
    \/ Finish(w)
    \/ CleanupAndNotify(w)

WorkersFair == \A w \in Workers : WF_vars(WorkerStepNoFault(w))

\* no pause, resume or cancel at all: every task is started once and left alone
NextHappy ==
    \/ Initialize
    \/ \E t \in Tasks, s \in SourcePaths \cup {MissingPath} : ClientStart(t, s)
    \/ \E w \in Workers : WorkerStepNoFault(w)

SpecHappy == Init /\ [][NextHappy]_vars /\ WorkersFair

\* one interruption of the first run of "t1", by PauseTransfer or CancelTransfer, then ResumeTransfer or StartTransfer again
FirstRun(task_id) ==
    /\ task_id \in DOMAIN transfer_tasks
    /\ transfer_tasks[task_id].status \in {"PENDING", "DOWNLOADING"}
    /\ total_transfers = 1
    /\ resumes = 0

NextResume ==
    \/ Initialize
    \/ \E s \in SourcePaths : ClientStart("t1", s)
    \/ FirstRun("t1") /\ PauseTransfer("t1")
    \/ FirstRun("t1") /\ CancelTransfer("t1")
    \/ ClientResume("t1")
    \/ ClientRestart("t1")
    \/ \E w \in Workers : WorkerStepNoFault(w)

SpecResume == Init /\ [][NextResume]_vars /\ WorkersFair

\* the environment truncates by one byte the temp artifact of a COMPLETED chunk
\* of a task whose run has ended PAUSED
Corrupt(task_id, i) ==
    /\ RunEndedPaused(task_id)
    /\ faults < MaxFaults
    /\ i \in 1..Len(transfer_tasks[task_id].chunks)
    /\ transfer_tasks[task_id].chunks[i].status = "COMPLETED"
    /\ VerifyChunk(transfer_tasks[task_id], transfer_tasks[task_id].chunks[i])
    /\ LET path == transfer_tasks[task_id].dest_path
           slot == transfer_tasks[task_id].chunks[i].chunk_index + 1
           data == temp_files[path][slot].data
       IN  temp_files' = [temp_files EXCEPT
               ![path][slot] = File(SubSeq(data, 1, Len(data) - 1))]
    /\ faults' = faults + 1
    /\ UNCHANGED <<lifecycle, config, apart, ret, callers, transfer_tasks, task_queue, db_rows,
                   dest_files, worker, counters, resumes>>

-----------------------------------------------------------------------------
(* StartTransfer step by step, for client threads that call it at the same    *)
(* time: the test under tasks_mutex_, the insert into the store, the          *)
(* registration in the map, the attachment of the callbacks, the push.        *)

NoCallbacks == [progress |-> NullCallback, completion |-> NullCallback]

\* the call of client thread c has returned
StartReturns(c, result) ==
    callers' = [callers EXCEPT ![c].pc = "returned", ![c].result = result]

\* the checks of StartTransfer up to the end of the block under tasks_mutex_
StartCheck(c, task_id, source_path, cb) ==
    /\ callers[c].pc = "idle"
    /\ IF ~initialized \/ source_path \notin SourcePaths
       THEN /\ callers' = [callers EXCEPT ![c] =
                   [IdleCaller EXCEPT !.pc = "returned", !.task_id = task_id,
                                      !.source_path = source_path, !.cb = cb,
                                      !.result = "false"]]
            /\ UNCHANGED <<transfer_tasks, task_queue, total_transfers>>
       ELSE IF task_id \in DOMAIN transfer_tasks
       THEN IF transfer_tasks[task_id].status = "PAUSED"
            THEN /\ total_transfers < MaxTransfers
                 /\ QueueLockFree
                 /\ transfer_tasks' = [transfer_tasks EXCEPT
                        ![task_id].progress_callback = cb.progress,
                        ![task_id].completion_callback = cb.completion]
                 /\ task_queue' = Append(task_queue, task_id)
                 /\ total_transfers' = total_transfers + 1
                 /\ callers' = [callers EXCEPT ![c] =
                        [IdleCaller EXCEPT !.pc = "returned", !.task_id = task_id,
                                           !.source_path = source_path, !.cb = cb,
                                           !.result = "true"]]
            ELSE /\ callers' = [callers EXCEPT ![c] =
                        [IdleCaller EXCEPT !.pc = "returned", !.task_id = task_id,
                                           !.source_path = source_path, !.cb = cb,
                                           !.result = "false"]]
                 /\ UNCHANGED <<transfer_tasks, task_queue, total_transfers>>
       ELSE /\ callers' = [callers EXCEPT ![c] =
                   [IdleCaller EXCEPT !.pc = "create", !.task_id = task_id,
                                      !.source_path = source_path, !.cb = cb]]
            /\ UNCHANGED <<transfer_tasks, task_queue, total_transfers>>
    /\ UNCHANGED <<lifecycle, config, apart, ret, db_rows, disk, worker, active_transfers,
                   completed_transfers, failed_transfers, faults, resumes>>

\* CreateTransferTask, first half: the row and the chunk rows in the store
StartInsert(c) ==
    /\ callers[c].pc = "create"
    /\ IF DbHasPath(callers[c].source_path)
       THEN /\ StartReturns(c, "false")
            /\ UNCHANGED db_rows
       ELSE /\ db_rows' = Append(db_rows, DbNewRow(callers[c].source_path,
                                                   SourceSize(callers[c].source_path),
                                                   chunk_size_))
            /\ callers' = [callers EXCEPT ![c].pc = "register",
                                          ![c].db_task_id = Len(db_rows) + 1]
    /\ UNCHANGED <<lifecycle, config, apart, ret, transfer_tasks, task_queue, disk, worker, counters,
                   faults, resumes>>

\* CreateTransferTask, second half: transfer_tasks_[task_id] = std::move(task).
\* The assignment destroys a TransferTaskInfo already stored under the id; a
\* worker inside ProcessTransferTask for the id keeps a pointer to it.
StartRegister(c) ==
    /\ callers[c].pc = "register"
    /\ transfer_tasks' =
           (callers[c].task_id :>
                NewTaskInfo(callers[c].task_id, callers[c].source_path,
                            DestPath(callers[c].task_id), callers[c].db_task_id,
                            NoCallbacks))
           @@ transfer_tasks
    /\ worker' = [w \in Workers |->
                     IF /\ callers[c].task_id \in DOMAIN transfer_tasks
                        /\ Running(w)
                        /\ worker[w].task_id = callers[c].task_id
                     THEN [worker[w] EXCEPT !.pc = "dangling"]
                     ELSE worker[w]]
    /\ callers' = [callers EXCEPT ![c].pc = "attach"]
    /\ UNCHANGED <<lifecycle, config, apart, ret, task_queue, db_rows, disk, counters, faults, resumes>>

\* the callbacks are attached to whatever is stored under the id by now
StartAttach(c) ==
    /\ callers[c].pc = "attach"
    /\ transfer_tasks' =
           IF callers[c].task_id \in DOMAIN transfer_tasks
           THEN [transfer_tasks EXCEPT
                    ![callers[c].task_id].progress_callback = callers[c].cb.progress,
                    ![callers[c].task_id].completion_callback = callers[c].cb.completion]
           ELSE transfer_tasks
    /\ callers' = [callers EXCEPT ![c].pc = "enqueue"]
    /\ UNCHANGED <<lifecycle, config, apart, ret, task_queue, db_rows, disk, worker, counters, faults,
                   resumes>>

\* the push, the notification and the counter; the call returns true
StartEnqueue(c) ==
    /\ callers[c].pc = "enqueue"
    /\ total_transfers < MaxTransfers
    /\ QueueLockFree
    /\ task_queue' = Append(task_queue, callers[c].task_id)
    /\ total_transfers' = total_transfers + 1
    /\ StartReturns(c, "true")
    /\ UNCHANGED <<lifecycle, config, apart, ret, transfer_tasks, db_rows, disk, worker, active_transfers,
                   completed_transfers, failed_transfers, faults, resumes>>

\* a worker uses the pointer to a destroyed TransferTaskInfo.  The behaviour is
\* undefined: the thread faults, or it goes on with what it reads and ends its
\* run with either verdict; UpdateTaskStatus then finds by id the object stored
\* in the map now.
UseAfterFree(w, faulted, success) ==
    /\ worker[w].pc = "dangling"
    /\ worker' = [worker EXCEPT ![w] =
          IF faulted
          THEN [@ EXCEPT !.pc = "crashed"]
          ELSE [@ EXCEPT !.pc = "finish", !.paused_requested = FALSE, !.success = success,
                         !.error_message = IF success THEN "" ELSE "chunk transfer failed"]]
    /\ UNCHANGED <<lifecycle, config, apart, ret, callers, transfer_tasks, task_queue, db_rows, disk,
                   counters, faults, resumes>>

\* the callbacks a client thread passes
CallbacksOf(c) == IF c = 1 THEN FirstCallbacks ELSE SecondCallbacks

\* client threads that call StartTransfer once each with the same unknown task
\* id, with equal or with different sources, while the workers run
NextConcurrentStart ==
    \/ Initialize
    \/ \E c \in Callers, s \in {"s1", "s2"} : StartCheck(c, "t1", s, CallbacksOf(c))
    \/ \E c \in Callers : StartInsert(c)
    \/ \E c \in Callers : StartRegister(c)
    \/ \E c \in Callers : StartAttach(c)
    \/ \E c \in Callers : StartEnqueue(c)
    \/ \E w \in Workers : WorkerStepNoFault(w)
    \/ \E w \in Workers, faulted \in BOOLEAN, success \in BOOLEAN :
           UseAfterFree(w, faulted, success)

SpecConcurrentStart == Init /\ [][NextConcurrentStart]_vars

-----------------------------------------------------------------------------
(* The life of a manager: the wait of WorkerThread in full, Shutdown, a new   *)
(* instance on the same store, and the exit of the process.                   *)
(* In a worker, "idle"/"done" is the head of the loop, "blocking" the point   *)
(* after the wait predicate was found false and before the thread blocks      *)
(* (queue_mutex_ held), "waiting" the blocked thread.  Where nothing sets      *)
(* shutdown_flag_ these points cannot be told apart from "idle", because      *)
(* every push holds queue_mutex_; only Shutdown writes without it.            *)

\* queue_cv_.wait evaluates its predicate and finds it false
WaitCheck(w) ==
    /\ worker[w].pc \in {"idle", "done"}
    /\ QueueLockFree
    /\ ~shutdown_flag
    /\ task_queue = << >>
    /\ worker' = [worker EXCEPT ![w].pc = "blocking"]
    /\ UNCHANGED <<lifecycle, config, apart, ret, callers, transfer_tasks, task_queue, db_rows, disk,
                   counters, faults, resumes>>

\* the thread releases queue_mutex_ and blocks on queue_cv_
Block(w) ==
    /\ worker[w].pc = "blocking"
    /\ worker' = [worker EXCEPT ![w].pc = "waiting"]
    /\ UNCHANGED <<lifecycle, config, apart, ret, callers, transfer_tasks, task_queue, db_rows, disk,
                   counters, faults, resumes>>

\* notify_one after a push wakes a blocked thread, which evaluates the predicate again
Wake(w) ==
    /\ worker[w].pc = "waiting"
    /\ task_queue # << >>
    /\ worker' = [worker EXCEPT ![w].pc = "idle"]
    /\ UNCHANGED <<lifecycle, config, apart, ret, callers, transfer_tasks, task_queue, db_rows, disk,
                   counters, faults, resumes>>

\* a condition variable may wake a thread without any notification
SpuriousWake(w) ==
    /\ worker[w].pc = "waiting"
    /\ worker' = [worker EXCEPT ![w].pc = "idle"]
    /\ UNCHANGED <<lifecycle, config, apart, ret, callers, transfer_tasks, task_queue, db_rows, disk,
                   counters, faults, resumes>>

\* the thread sees shutdown_flag_ at the loop head or after the wait, and returns
WorkerExit(w) ==
    /\ worker[w].pc \in {"idle", "done"}
    /\ QueueLockFree
    /\ shutdown_flag
    /\ worker' = [worker EXCEPT ![w].pc = "exited"]
    /\ UNCHANGED <<lifecycle, config, apart, ret, callers, transfer_tasks, task_queue, db_rows, disk,
                   counters, faults, resumes>>

\* Shutdown up to the join: set the flag and notify_all, neither under queue_mutex_;
\* the threads blocked at that moment wake
ShutdownBegin ==
    /\ initialized
    /\ ~shutdown_flag
    /\ shutdown_flag' = TRUE
    /\ worker' = [w \in Workers |->
                     IF worker[w].pc = "waiting"
                     THEN [worker[w] EXCEPT !.pc = "idle"]
                     ELSE worker[w]]
    /\ UNCHANGED <<config, apart, initialized, restarts, ret, callers, transfer_tasks, task_queue,
                   db_rows, disk, counters, faults, resumes>>

\* Shutdown after the join: every thread has returned; clear the map and the queue
ShutdownEnd ==
    /\ initialized
    /\ shutdown_flag
    /\ \A w \in Workers : worker[w].pc = "exited"
    /\ transfer_tasks' = << >>
    /\ task_queue' = << >>
    /\ initialized' = FALSE
    /\ worker' = [w \in Workers |-> [IdleWorker EXCEPT !.pc = "off"]]
    /\ ret' = Returned("Shutdown", NoTaskId, TRUE)
    /\ UNCHANGED <<config, apart, shutdown_flag, restarts, callers, db_rows, disk, counters, faults,
                   resumes>>

\* the manager that was shut down is destroyed and another one is constructed
NewInstance ==
    /\ ~initialized
    /\ shutdown_flag
    /\ restarts < MaxRestarts
    /\ restarts' = restarts + 1
    /\ shutdown_flag' = FALSE
    /\ active_transfers' = 0
    /\ total_transfers' = 0
    /\ completed_transfers' = 0
    /\ failed_transfers' = 0
    /\ UNCHANGED <<config, apart, initialized, ret, callers, transfer_tasks, task_queue, db_rows, disk,
                   worker, faults, resumes>>

\* the process exits at an arbitrary point and is started again: memory is that
\* of a newly constructed manager, the store and the files are what they were
Crash ==
    /\ initialized
    /\ restarts < MaxRestarts
    /\ restarts' = restarts + 1
    /\ initialized' = FALSE
    /\ shutdown_flag' = FALSE
    /\ transfer_tasks' = << >>
    /\ task_queue' = << >>
    /\ worker' = [w \in Workers |-> [IdleWorker EXCEPT !.pc = "off"]]
    /\ active_transfers' = 0
    /\ total_transfers' = 0
    /\ completed_transfers' = 0
    /\ failed_transfers' = 0
    /\ ret' = NoReturn
    /\ UNCHANGED <<config, apart, callers, db_rows, disk, faults, resumes>>

\* the store lists the row of a path among the incomplete transfers
DbIncomplete(file_path) ==
    \E id \in 1..Len(db_rows) :
        /\ db_rows[id].file_path = file_path
        /\ db_rows[id].status \in {"PENDING", "DOWNLOADING", "PAUSED"}

\* a transfer without I/O faults, the process exiting at any point of it, and
\* StartTransfer with the same task id and paths after the restart
NextCrash ==
    \/ Initialize
    \/ \E s \in {"s1", "s2"} : ClientStart("t1", s)
    \/ Crash
    \/ \E w \in Workers : WorkerStepNoFault(w)

SpecCrash == Init /\ [][NextCrash]_vars /\ WorkersFair

\* the steps of a worker thread, the wait included, without I/O faults
ThreadStep(w) ==
    \/ WorkerStepNoFault(w)
    \/ WaitCheck(w)
    \/ Block(w)
    \/ Wake(w)
    \/ WorkerExit(w)

\* a transfer with I/O faults, pauses and damaged artifacts, Shutdown at any
\* point of it, and a new instance that starts or resumes the task again
NextShutdown ==
    \/ Initialize
    \/ ClientStart("t1", "s2")
    \/ PauseTransfer("t1")
    \/ ClientResume("t1")
    \/ "t1" \notin DOMAIN transfer_tasks /\ ResumeTransfer("t1")
    \/ ShutdownBegin
    \/ ShutdownEnd
    \/ NewInstance
    \/ \E w \in Workers : ThreadStep(w)
    \/ \E w \in Workers : TransferChunk(w, TRUE) \/ MergeStep(w, TRUE)
    \/ \E w \in Workers : RetryFails(w)
    \/ \E i \in 1..MaxChunks : Corrupt("t1", i)
    \/ \E w \in Workers : SpuriousWake(w)

\* a thread that can take a step takes it, and the join returns once every
\* thread has returned; nothing obliges a spurious wakeup to happen
SpecShutdown ==
    /\ Init /\ [][NextShutdown]_vars
    /\ \A w \in Workers : WF_vars(ThreadStep(w))
    /\ WF_vars(ShutdownEnd)

\* the interrupted and resumed transfer of SpecResume, with an artifact damaged
\* while the task is PAUSED
NextCorrupt ==
    \/ Initialize
    \/ \E s \in {"s1", "s2"} : ClientStart("t1", s)
    \/ FirstRun("t1") /\ PauseTransfer("t1")
    \/ \E i \in 1..MaxChunks : Corrupt("t1", i)
    \/ ClientResume("t1")
    \/ ClientRestart("t1")
    \/ \E w \in Workers : WorkerStepNoFault(w)

SpecCorrupt == Init /\ [][NextCorrupt]_vars /\ WorkersFair

-----------------------------------------------------------------------------
(* The retry loop under every setting of max_retries_ and every fault of a    *)
(* chunk: the copy fails, the copy keeps failing, the copy succeeds and the   *)
(* verification of the artifact fails.                                        *)

SetMaxRetries(max_retries) ==
    /\ max_retries_' = max_retries
    /\ UNCHANGED <<lifecycle, chunk_size_, apart, ret, callers, transfer_tasks, task_queue,
                   db_rows, disk, worker, counters, faults, resumes>>

\* the artifact TransferChunk has just written loses its last byte before
\* VerifyChunk reads it
DamageFresh(w) ==
    /\ worker[w].pc = "verify"
    /\ faults < MaxFaults
    /\ VerifyChunk(TaskOf(w), ChunkOf(w))
    /\ LET path == TaskOf(w).dest_path
           slot == ChunkOf(w).chunk_index + 1
           data == temp_files[path][slot].data
       IN  temp_files' = [temp_files EXCEPT
               ![path][slot] = File(SubSeq(data, 1, Len(data) - 1))]
    /\ faults' = faults + 1
    /\ UNCHANGED <<lifecycle, config, apart, ret, callers, transfer_tasks, task_queue,
                   db_rows, dest_files, worker, counters, resumes>>

\* one transfer, max_retries_ set before it starts
NextRetries ==
    \/ Initialize
    \/ initialized /\ transfer_tasks = << >> /\ \E n \in 0..MaxRetries : SetMaxRetries(n)
    \/ ClientStart("t1", "s2")
    \/ \E w \in Workers : WorkerStep(w)
    \/ \E w \in Workers : RetryFails(w)
    \/ \E w \in Workers : DamageFresh(w)

SpecRetries == Init /\ [][NextRetries]_vars

-----------------------------------------------------------------------------
(* AnalyzeFileAndCreateChunks on its own, for every file size and chunk size  *)
(* within the bounds.                                                         *)

InitAnalyze ==
    /\ initialized = FALSE
    /\ transfer_tasks = << >>
    /\ task_queue = << >>
    /\ db_rows = << >>
    /\ temp_files = [d \in DestPaths |-> [i \in 1..MaxChunks |-> NoFile]]
    /\ dest_files = [d \in DestPaths |-> NoFile]
    /\ worker = [w \in Workers |-> [IdleWorker EXCEPT !.pc = "off"]]
    /\ active_transfers = 0
    /\ total_transfers = 0
    /\ completed_transfers = 0
    /\ failed_transfers = 0
    /\ faults = 0
    /\ resumes = 0
    /\ shutdown_flag = FALSE
    /\ restarts = 0
    /\ ret = NoReturn
    /\ callers = [c \in Callers |-> IdleCaller]
    /\ max_retries_ = MaxRetries
    /\ mutex = FreeMutexes
    /\ chunk_size_ \in 1..MaxPlanChunkSize
    /\ \E n \in 0..MaxPlanFileSize :
           calc = [NoCalc EXCEPT !.source_path = "s1", !.file_size = n]

ApplyAnalyze ==
    /\ ~calc.done
    /\ calc' = [calc EXCEPT
                   !.chunks = AnalyzeFileAndCreateChunks(calc.source_path, calc.file_size, 0, 0),
                   !.done = TRUE]
    /\ UNCHANGED <<lifecycle, config, mutex, ret, callers, transfer_tasks, task_queue,
                   db_rows, disk, worker, counters, faults, resumes>>

SpecAnalyze == InitAnalyze /\ [][ApplyAnalyze]_vars

-----------------------------------------------------------------------------
(* The mutexes.  Threads of any kind (clients, a worker inside a callback or  *)
(* the retry loop, the supervisor) call into the manager; every call is cut   *)
(* at the points where it locks or unlocks tasks_mutex_, queue_mutex_ and the *)
(* db_mutex_ of the store.  A block that locks one mutex, calls nothing and   *)
(* unlocks is one step that needs the mutex free.                             *)

Free(m) == mutex[m] = NoThread
Holds(c, m) == mutex[m] = c

\* the calls of an operation that have not returned yet
InFlight(op) ==
    Cardinality({c \in Callers : callers[c].op = op /\ callers[c].pc \notin {"idle", "returned"}})

\* the status the operation hands to UpdateTaskStatus
StatusOf(op) == IF op = "ResumeTransfer" THEN "DOWNLOADING" ELSE "PAUSED"

LockReturns(c, result) ==
    callers' = [callers EXCEPT ![c].pc = "returned", ![c].result = result]

\* the chunk a run adds to transferred_bytes next, 0 when there is none
NextProgressChunk(task_id) ==
    IF task_id \in DOMAIN transfer_tasks
    THEN LET task == transfer_tasks[task_id]
             next == {i \in 1..Len(task.chunks) : task.chunks[i].offset = task.transferred_bytes}
         IN  IF next = {} THEN 0 ELSE CHOOSE i \in next : TRUE
    ELSE 0

\* a thread enters PauseTransfer, CancelTransfer, ResumeTransfer, StartTransfer
\* or GetTransferProgress, or (a worker) UpdateChunkStatus after a failed
\* attempt or the progress update of ProcessTransferTask after a chunk
LockCall(c, op, task_id) ==
    /\ callers[c].pc = "idle"
    /\ op = "ProcessTransferTask" => NextProgressChunk(task_id) # 0
    /\ op = "ResumeTransfer" => resumes + InFlight(op) < MaxResumes
    /\ op = "StartTransfer" => initialized /\ total_transfers + InFlight(op) < MaxTransfers
    /\ callers' = [callers EXCEPT ![c] =
           [IdleCaller EXCEPT !.op = op, !.task_id = task_id, !.source_path = "s2",
                              !.cb = FirstCallbacks,
                              !.pc = CASE op = "UpdateChunkStatus" -> "update"
                                       [] op = "ProcessTransferTask" -> "progress"
                                       [] op = "GetTransferProgress" -> "read"
                                       [] OTHER -> "find"]]
    /\ UNCHANGED <<lifecycle, config, apart, ret, transfer_tasks, task_queue, db_rows, disk,
                   worker, counters, faults, resumes>>

\* the membership test under tasks_mutex_; StartTransfer on a PAUSED task keeps
\* the mutex for the push
LockFind(c) ==
    /\ callers[c].pc = "find"
    /\ Free("tasks_mutex")
    /\ IF callers[c].op = "StartTransfer"
       THEN IF callers[c].task_id \in DOMAIN transfer_tasks
            THEN IF transfer_tasks[callers[c].task_id].status = "PAUSED"
                 THEN /\ mutex' = [mutex EXCEPT !["tasks_mutex"] = c]
                      /\ transfer_tasks' = [transfer_tasks EXCEPT
                             ![callers[c].task_id].progress_callback = callers[c].cb.progress,
                             ![callers[c].task_id].completion_callback = callers[c].cb.completion]
                      /\ callers' = [callers EXCEPT ![c].pc = "requeue"]
                 ELSE /\ LockReturns(c, "false")
                      /\ UNCHANGED <<mutex, transfer_tasks>>
            ELSE /\ callers' = [callers EXCEPT ![c].pc = "db_create"]
                 /\ UNCHANGED <<mutex, transfer_tasks>>
       ELSE /\ IF callers[c].task_id \in DOMAIN transfer_tasks
               THEN callers' = [callers EXCEPT ![c].pc = "update"]
               ELSE LockReturns(c, "false")
            /\ UNCHANGED <<mutex, transfer_tasks>>
    /\ UNCHANGED <<lifecycle, config, calc, ret, task_queue, db_rows, disk, worker, counters,
                   faults, resumes>>

\* StartTransfer on a PAUSED task: the push under queue_mutex_, inside the block
\* under tasks_mutex_
LockRequeue(c) ==
    /\ callers[c].pc = "requeue"
    /\ Free("queue_mutex")
    /\ QueueLockFree
    /\ task_queue' = Append(task_queue, callers[c].task_id)
    /\ total_transfers' = total_transfers + 1
    /\ mutex' = [mutex EXCEPT !["tasks_mutex"] = NoThread]
    /\ LockReturns(c, "true")
    /\ UNCHANGED <<lifecycle, config, calc, ret, transfer_tasks, db_rows, disk, worker,
                   active_transfers, completed_transfers, failed_transfers, faults, resumes>>

\* UpdateTaskStatus and UpdateChunkStatus lock tasks_mutex_ for their whole body
LockUpdate(c) ==
    /\ callers[c].pc = "update"
    /\ Free("tasks_mutex")
    /\ mutex' = [mutex EXCEPT !["tasks_mutex"] = c]
    /\ callers' = [callers EXCEPT ![c].pc =
           IF /\ callers[c].task_id \in DOMAIN transfer_tasks
              /\ transfer_tasks[callers[c].task_id].db_task_id > 0
           THEN "store"
           ELSE "memory"]
    /\ UNCHANGED <<lifecycle, config, calc, ret, transfer_tasks, task_queue, db_rows, disk,
                   worker, counters, faults, resumes>>

\* the store's UpdateTransferStatus or UpdateChunkStatus locks db_mutex_
LockStore(c) ==
    /\ callers[c].pc = "store"
    /\ Free("db_mutex")
    /\ mutex' = [mutex EXCEPT !["db_mutex"] = c]
    /\ callers' = [callers EXCEPT ![c].pc = "in_store"]
    /\ UNCHANGED <<lifecycle, config, calc, ret, transfer_tasks, task_queue, db_rows, disk,
                   worker, counters, faults, resumes>>

\* an UpdateTaskStatus that gives tasks_mutex_ up once the store has the status
LockStoreDoneUnlocksTasks(c) ==
    /\ callers[c].pc = "in_store"
    /\ db_rows' = IF callers[c].op = "UpdateChunkStatus"
                  THEN DbUpdateChunkStatus(db_rows,
                                           transfer_tasks[callers[c].task_id].db_task_id,
                                           0, "FAILED", "")
                  ELSE UpdatedStore(callers[c].task_id, StatusOf(callers[c].op))
    /\ mutex' = [mutex EXCEPT !["db_mutex"] = NoThread, !["tasks_mutex"] = NoThread]
    /\ callers' = [callers EXCEPT ![c].pc =
           IF callers[c].op = "UpdateChunkStatus" THEN "memory" ELSE "heartbeat"]
    /\ UNCHANGED <<lifecycle, config, calc, ret, transfer_tasks, task_queue, disk, worker,
                   counters, faults, resumes>>

\* the store writes the row and unlocks db_mutex_
LockStoreDone(c) ==
    /\ callers[c].pc = "in_store"
    /\ db_rows' = IF callers[c].op = "UpdateChunkStatus"
                  THEN DbUpdateChunkStatus(db_rows,
                                           transfer_tasks[callers[c].task_id].db_task_id,
                                           0, "FAILED", "")
                  ELSE UpdatedStore(callers[c].task_id, StatusOf(callers[c].op))
    /\ mutex' = [mutex EXCEPT !["db_mutex"] = NoThread]
    /\ callers' = [callers EXCEPT ![c].pc =
           IF callers[c].op = "UpdateChunkStatus" THEN "memory" ELSE "heartbeat"]
    /\ UNCHANGED <<lifecycle, config, calc, ret, transfer_tasks, task_queue, disk, worker,
                   counters, faults, resumes>>

\* UpdateTransferHeartbeat: db_mutex_ once more
LockHeartbeat(c) ==
    /\ callers[c].pc = "heartbeat"
    /\ Free("db_mutex")
    /\ callers' = [callers EXCEPT ![c].pc = "memory"]
    /\ UNCHANGED <<lifecycle, config, apart, ret, transfer_tasks, task_queue, db_rows, disk,
                   worker, counters, faults, resumes>>

\* the in-memory status is set and tasks_mutex_ unlocked
LockMemory(c) ==
    /\ callers[c].pc = "memory"
    /\ transfer_tasks' = IF callers[c].op = "UpdateChunkStatus"
                         THEN transfer_tasks
                         ELSE UpdatedTasks(callers[c].task_id, StatusOf(callers[c].op))
    /\ mutex' = [mutex EXCEPT !["tasks_mutex"] = NoThread]
    /\ IF callers[c].op = "ResumeTransfer"
       THEN callers' = [callers EXCEPT ![c].pc = "push"]
       ELSE LockReturns(c, IF callers[c].op = "UpdateChunkStatus" THEN "void" ELSE "true")
    /\ UNCHANGED <<lifecycle, config, calc, ret, task_queue, db_rows, disk, worker, counters,
                   faults, resumes>>

\* ResumeTransfer pushes under queue_mutex_
LockPush(c) ==
    /\ callers[c].pc = "push"
    /\ Free("queue_mutex")
    /\ QueueLockFree
    /\ task_queue' = Append(task_queue, callers[c].task_id)
    /\ resumes' = resumes + 1
    /\ LockReturns(c, "true")
    /\ UNCHANGED <<lifecycle, config, apart, ret, transfer_tasks, db_rows, disk, worker,
                   counters, faults>>

\* TransferStatusDB::CreateTransferTask locks db_mutex_ and inserts the task row
DbCreateTransferTask(c) ==
    /\ callers[c].pc = "db_create"
    /\ Free("db_mutex")
    /\ IF DbHasPath(callers[c].source_path)
       THEN /\ LockReturns(c, "false")
            /\ UNCHANGED <<mutex, db_rows>>
       ELSE /\ mutex' = [mutex EXCEPT !["db_mutex"] = c]
            /\ db_rows' = Append(db_rows,
                   [DbNewRow(callers[c].source_path, SourceSize(callers[c].source_path),
                             chunk_size_) EXCEPT !.chunks = << >>])
            /\ callers' = [callers EXCEPT ![c].pc = "chunks",
                                          ![c].db_task_id = Len(db_rows) + 1]
    /\ UNCHANGED <<lifecycle, config, calc, ret, transfer_tasks, task_queue, disk, worker,
                   counters, faults, resumes>>

\* CreateChunks inserts the chunk rows one by one; the insert of row number
\* inserted + 1 fails when inserted is below total_chunks
DbCreateChunks(c, inserted) ==
    /\ callers[c].pc = "chunks"
    /\ db_rows' = [db_rows EXCEPT ![callers[c].db_task_id].chunks =
                      [i \in 1..inserted |-> [status |-> "PENDING", md5_hash |-> ""]]]
    /\ IF inserted = db_rows[callers[c].db_task_id].total_chunks
       THEN /\ mutex' = [mutex EXCEPT !["db_mutex"] = NoThread]
            /\ callers' = [callers EXCEPT ![c].pc = "register"]
            /\ UNCHANGED faults
       ELSE /\ faults < MaxFaults
            /\ faults' = faults + 1
            /\ callers' = [callers EXCEPT ![c].pc = "relock"]
            /\ UNCHANGED mutex
    /\ UNCHANGED <<lifecycle, config, calc, ret, transfer_tasks, task_queue, disk, worker,
                   counters, resumes>>

\* what locking a std::mutex again in the thread that holds it may do
RelockOutcomes == {"blocks", "proceeds", "throws"}

\* DeleteTransferTask, called with db_mutex_ held, locks db_mutex_ again.  The
\* behaviour is undefined: the thread blocks on itself for good; or the lock
\* is taken once more, the task row goes with its chunk rows and -1 is
\* returned; or lock() throws, the delete does not run and the exception ends
\* the manager's CreateTransferTask in its catch.
DbDeleteTransferTask(c, outcome) ==
    /\ callers[c].pc = "relock"
    /\ CASE outcome = "blocks" ->
              /\ callers' = [callers EXCEPT ![c].pc = "blocked_on_self"]
              /\ UNCHANGED <<mutex, db_rows>>
         [] outcome = "proceeds" ->
              /\ db_rows' = SubSeq(db_rows, 1, callers[c].db_task_id - 1)
              /\ mutex' = [mutex EXCEPT !["db_mutex"] = NoThread]
              /\ LockReturns(c, "false")
         [] outcome = "throws" ->
              /\ mutex' = [mutex EXCEPT !["db_mutex"] = NoThread]
              /\ LockReturns(c, "false")
              /\ UNCHANGED db_rows
    /\ UNCHANGED <<lifecycle, config, calc, ret, transfer_tasks, task_queue, disk, worker,
                   counters, faults, resumes>>

\* ProcessTransferTask: task->transferred_bytes += chunk.actual_size, through
\* the pointer it took from the map, with no mutex held
ProgressWrite(c) ==
    /\ callers[c].pc = "progress"
    /\ LET i == NextProgressChunk(callers[c].task_id)
       IN  /\ i # 0
           /\ transfer_tasks' = [transfer_tasks EXCEPT
                  ![callers[c].task_id].transferred_bytes =
                      @ + transfer_tasks[callers[c].task_id].chunks[i].actual_size]
    /\ LockReturns(c, "void")
    /\ UNCHANGED <<lifecycle, config, apart, ret, task_queue, db_rows, disk, worker, counters,
                   faults, resumes>>

\* GetTransferProgress locks tasks_mutex_ ...
LockRead(c) ==
    /\ callers[c].pc = "read"
    /\ Free("tasks_mutex")
    /\ mutex' = [mutex EXCEPT !["tasks_mutex"] = c]
    /\ callers' = [callers EXCEPT ![c].pc = "reading"]
    /\ UNCHANGED <<lifecycle, config, calc, ret, transfer_tasks, task_queue, db_rows, disk,
                   worker, counters, faults, resumes>>

\* the transferred_bytes a read may see: the value stored, or, with a write of
\* a thread that holds no mutex under way, the value that write is storing
ReadableBytes(task_id) ==
    {transfer_tasks[task_id].transferred_bytes} \cup
    {transfer_tasks[task_id].transferred_bytes
         + transfer_tasks[task_id].chunks[NextProgressChunk(task_id)].actual_size :
     c \in {d \in Callers : callers[d].pc = "progress" /\ callers[d].task_id = task_id
                                /\ NextProgressChunk(task_id) # 0}}

\* ... reads transferred_bytes and file_size, and unlocks
LockReadDone(c, bytes) ==
    /\ callers[c].pc = "reading"
    /\ IF callers[c].task_id \in DOMAIN transfer_tasks
       THEN /\ bytes \in ReadableBytes(callers[c].task_id)
            /\ ret' = [NoReturn EXCEPT
                          !.op = "GetTransferProgress", !.task_id = callers[c].task_id,
                          !.progress = (bytes * 100)
                                           \div transfer_tasks[callers[c].task_id].file_size]
       ELSE /\ bytes = 0
            /\ ret' = [NoReturn EXCEPT !.op = "GetTransferProgress",
                                       !.task_id = callers[c].task_id]
    /\ mutex' = [mutex EXCEPT !["tasks_mutex"] = NoThread]
    /\ LockReturns(c, "read")
    /\ UNCHANGED <<lifecycle, config, calc, transfer_tasks, task_queue, db_rows, disk, worker,
                   counters, faults, resumes>>

\* the thread is back at its caller
LockReturn(c) ==
    /\ callers[c].pc = "returned"
    /\ callers' = [callers EXCEPT ![c] = IdleCaller]
    /\ UNCHANGED <<lifecycle, config, apart, ret, transfer_tasks, task_queue, db_rows, disk,
                   worker, counters, faults, resumes>>

LockOps == {"PauseTransfer", "CancelTransfer", "ResumeTransfer", "StartTransfer",
            "UpdateChunkStatus", "ProcessTransferTask", "GetTransferProgress"}

NextLocks ==
    \/ Initialize
    \/ \E c \in Callers, op \in LockOps : LockCall(c, op, "t1")
    \/ \E c \in Callers : LockFind(c)
    \/ \E c \in Callers : LockRequeue(c)
    \/ \E c \in Callers : LockUpdate(c)
    \/ \E c \in Callers : LockStore(c)
    \/ \E c \in Callers : LockStoreDone(c)
    \/ \E c \in Callers : LockHeartbeat(c)
    \/ \E c \in Callers : LockMemory(c)
    \/ \E c \in Callers : LockPush(c)
    \/ \E c \in Callers : ProgressWrite(c)
    \/ \E c \in Callers : LockRead(c)
    \/ \E c \in Callers, bytes \in 0..SourceSize("s1") : LockReadDone(c, bytes)
    \/ \E c \in Callers : DbCreateTransferTask(c)
    \/ \E c \in Callers, inserted \in 0..MaxChunks : DbCreateChunks(c, inserted)
    \/ \E c \in Callers, outcome \in RelockOutcomes : DbDeleteTransferTask(c, outcome)
    \/ \E c \in Callers : Free("tasks_mutex") /\ StartRegister(c)
    \/ \E c \in Callers : Free("tasks_mutex") /\ StartAttach(c)
    \/ \E c \in Callers : Free("queue_mutex") /\ StartEnqueue(c)
    \/ \E c \in Callers : LockReturn(c)

SpecLocks == Init /\ [][NextLocks]_vars

-----------------------------------------------------------------------------
(* TransferStatusDB called on its own: a task is created and its chunk rows   *)
(* are updated with any status, with and without an md5_hash argument.        *)

ChunkStatuses == {"PENDING", "DOWNLOADING", "COMPLETED", "FAILED"}

\* the md5_hash arguments; "" is the default argument
Md5Arguments == {"", "md5a", "md5b"}

StoreCreateTransferTask(file_path) ==
    /\ ~DbHasPath(file_path)
    /\ db_rows' = Append(db_rows, DbNewRow(file_path, SourceSize(file_path), chunk_size_))
    /\ UNCHANGED <<lifecycle, config, apart, ret, callers, transfer_tasks, task_queue, disk,
                   worker, counters, faults, resumes>>

StoreUpdateChunkStatus(task_id, chunk_index, status, md5_hash) ==
    /\ db_rows' = DbUpdateChunkStatus(db_rows, task_id, chunk_index, status, md5_hash)
    /\ UNCHANGED <<lifecycle, config, apart, ret, callers, transfer_tasks, task_queue, disk,
                   worker, counters, faults, resumes>>

NextStore ==
    \/ StoreCreateTransferTask("s2")
    \/ \E task_id \in 1..2, chunk_index \in 0..(MaxChunks - 1), status \in ChunkStatuses,
          md5_hash \in Md5Arguments :
           StoreUpdateChunkStatus(task_id, chunk_index, status, md5_hash)

SpecStore == Init /\ [][NextStore]_vars

-----------------------------------------------------------------------------
(* MediaStatusDB: one call at a time of a schema statement (ExecuteSQL) or of *)
(* a write through a prepared statement, against a database that answers each *)
(* execution with any result code.                                            *)

ResultCodes == {"SQLITE_OK", "SQLITE_BUSY", "SQLITE_LOCKED", "SQLITE_ERROR"}
BusyCodes == {"SQLITE_BUSY", "SQLITE_LOCKED"}

\* the writes that run sqlite3_step once on a prepared statement
PreparedWrites == {"InsertMediaFile", "UpdateDownloadStatus", "UpdateTransferStatus"}

\* call: the function called; rcs: the result codes of its executions so far;
\* retry_count: the argument of ExecuteSQLWithRetry; delays: the sleeps so far;
\* error: SetError was called
NoMediaCall(max_retry_attempts) ==
    [max_retry_attempts_ |-> max_retry_attempts, call |-> "", pc |-> "idle", rcs |-> << >>,
     retry_count |-> 0, delays |-> 0, result |-> FALSE, error |-> FALSE]

InitMedia ==
    /\ initialized = FALSE
    /\ transfer_tasks = << >>
    /\ task_queue = << >>
    /\ db_rows = << >>
    /\ temp_files = [d \in DestPaths |-> [i \in 1..MaxChunks |-> NoFile]]
    /\ dest_files = [d \in DestPaths |-> NoFile]
    /\ worker = [w \in Workers |-> [IdleWorker EXCEPT !.pc = "off"]]
    /\ active_transfers = 0
    /\ total_transfers = 0
    /\ completed_transfers = 0
    /\ failed_transfers = 0
    /\ faults = 0
    /\ resumes = 0
    /\ shutdown_flag = FALSE
    /\ restarts = 0
    /\ ret = NoReturn
    /\ callers = [c \in Callers |-> IdleCaller]
    /\ chunk_size_ = ChunkSize
    /\ max_retries_ = MaxRetries
    /\ mutex = FreeMutexes
    /\ \E n \in 0..MaxRetryAttempts : calc = NoMediaCall(n)

MediaCall(call) ==
    /\ calc.pc \in {"idle", "returned"}
    /\ calc' = [NoMediaCall(calc.max_retry_attempts_) EXCEPT !.call = call, !.pc = "executing"]
    /\ UNCHANGED <<lifecycle, config, mutex, ret, callers, transfer_tasks, task_queue,
                   db_rows, disk, worker, counters, faults, resumes>>

\* one sqlite3_exec of ExecuteSQLWithRetry, or the sqlite3_step of a write
MediaExecute(rc) ==
    /\ calc.pc = "executing"
    /\ calc' =
          IF rc = "SQLITE_OK"
          THEN [calc EXCEPT !.rcs = Append(@, rc), !.pc = "returned", !.result = TRUE]
          ELSE IF /\ calc.call = "ExecuteSQL"
                  /\ rc \in BusyCodes
                  /\ calc.retry_count < calc.max_retry_attempts_
          THEN [calc EXCEPT !.rcs = Append(@, rc), !.delays = @ + 1, !.retry_count = @ + 1]
          ELSE [calc EXCEPT !.rcs = Append(@, rc), !.pc = "returned", !.result = FALSE,
                            !.error = TRUE]
    /\ UNCHANGED <<lifecycle, config, mutex, ret, callers, transfer_tasks, task_queue,
                   db_rows, disk, worker, counters, faults, resumes>>

NextMedia ==
    \/ \E call \in {"ExecuteSQL"} \cup PreparedWrites : MediaCall(call)
    \/ \E rc \in ResultCodes : MediaExecute(rc)

SpecMedia == InitMedia /\ [][NextMedia]_vars

-----------------------------------------------------------------------------
(* The supervisor: CleanupZombieTasks while two transfers run.  Time is the   *)
(* environment's: at each detection it decides which tasks are older than     *)
(* zombie_timeout_minutes (old) and which chunks were updated within the last *)
(* five minutes (recent).                                                     *)

\* the order in which the task map is iterated
TaskOrder == <<"t1", "t2">>

\* the chunks whose last_update the environment decides on: chunk 0 of each task
TimedChunks == Tasks \X {1}

DetectZombieTasks(old, recent) ==
    SelectSeq(TaskOrder,
              LAMBDA t :
                  /\ t \in DOMAIN transfer_tasks
                  /\ t \in old
                  /\ transfer_tasks[t].status = "DOWNLOADING"
                  /\ ~ \E i \in 1..Len(transfer_tasks[t].chunks) :
                         /\ transfer_tasks[t].chunks[i].status = "DOWNLOADING"
                         /\ <<t, i>> \in recent)

\* the supervisor thread: zombie_tasks is what is left of the detected list
NoCleanup ==
    [pc |-> "idle", old |-> {}, recent |-> {}, detected |-> << >>, zombie_tasks |-> << >>,
     cleaned_count |-> 0, result |-> 0, zombie_tasks_cleaned |-> 0]

InitZombie ==
    /\ initialized = FALSE
    /\ transfer_tasks = << >>
    /\ task_queue = << >>
    /\ db_rows = << >>
    /\ temp_files = [d \in DestPaths |-> [i \in 1..MaxChunks |-> NoFile]]
    /\ dest_files = [d \in DestPaths |-> NoFile]
    /\ worker = [w \in Workers |-> [IdleWorker EXCEPT !.pc = "off"]]
    /\ active_transfers = 0
    /\ total_transfers = 0
    /\ completed_transfers = 0
    /\ failed_transfers = 0
    /\ faults = 0
    /\ resumes = 0
    /\ shutdown_flag = FALSE
    /\ restarts = 0
    /\ ret = NoReturn
    /\ callers = [c \in Callers |-> IdleCaller]
    /\ chunk_size_ = ChunkSize
    /\ max_retries_ = MaxRetries
    /\ mutex = FreeMutexes
    /\ calc = NoCleanup

\* CleanupZombieTasks calls DetectZombieTasks
CleanupDetect(old, recent) ==
    /\ initialized
    /\ calc.pc \in {"idle", "returned"}
    /\ calc' = [calc EXCEPT !.pc = "cancel", !.old = old, !.recent = recent,
                            !.detected = DetectZombieTasks(old, recent),
                            !.zombie_tasks = DetectZombieTasks(old, recent),
                            !.cleaned_count = 0]
    /\ UNCHANGED <<lifecycle, config, mutex, ret, callers, transfer_tasks, task_queue,
                   db_rows, disk, worker, counters, faults, resumes>>

\* a cleanup that also removes the temp artifacts of the task it cancels
CleanupCancelRemovesArtifacts ==
    /\ calc.pc = "cancel"
    /\ calc.zombie_tasks # << >>
    /\ LET task_id == Head(calc.zombie_tasks)
       IN  /\ UpdateTaskStatus(task_id, "PAUSED")
           /\ temp_files' = [temp_files EXCEPT ![DestPath(task_id)] =
                                 [i \in 1..MaxChunks |-> NoFile]]
           /\ calc' = [calc EXCEPT !.zombie_tasks = Tail(@),
                                   !.cleaned_count =
                                       IF KnownTaskResult(task_id) THEN @ + 1 ELSE @]
    /\ UNCHANGED <<lifecycle, config, mutex, ret, callers, task_queue, dest_files, worker,
                   counters, faults, resumes>>

\* one turn of the loop of CleanupZombieTasks: CancelTransfer on the next task
CleanupCancel ==
    /\ calc.pc = "cancel"
    /\ calc.zombie_tasks # << >>
    /\ LET task_id == Head(calc.zombie_tasks)
       IN  /\ UpdateTaskStatus(task_id, "PAUSED")
           /\ calc' = [calc EXCEPT !.zombie_tasks = Tail(@),
                                   !.cleaned_count =
                                       IF KnownTaskResult(task_id) THEN @ + 1 ELSE @]
    /\ UNCHANGED <<lifecycle, config, mutex, ret, callers, task_queue, disk, worker,
                   counters, faults, resumes>>

\* zombie_tasks_cleaned_ += cleaned_count; return cleaned_count
CleanupReturn ==
    /\ calc.pc = "cancel"
    /\ calc.zombie_tasks = << >>
    /\ calc' = [calc EXCEPT !.pc = "returned", !.old = {}, !.recent = {},
                            !.result = calc.cleaned_count,
                            !.zombie_tasks_cleaned = @ + calc.cleaned_count]
    /\ UNCHANGED <<lifecycle, config, mutex, ret, callers, transfer_tasks, task_queue,
                   db_rows, disk, worker, counters, faults, resumes>>

NextZombie ==
    \/ Initialize
    \/ ClientStart("t1", "s2")
    \/ ClientStart("t2", "s1")
    \/ \E w \in Workers : WorkerStepNoFault(w)
    \/ \E old \in SUBSET Tasks, recent \in SUBSET TimedChunks : CleanupDetect(old, recent)
    \/ CleanupCancel
    \/ CleanupReturn

SpecZombie == InitZombie /\ [][NextZombie]_vars

-----------------------------------------------------------------------------
(* Properties *)

TaskStatus(task_id) == transfer_tasks[task_id].status

NoTempArtifacts(task) ==
    \A i \in 1..Len(task.chunks) :
        ~temp_files[task.dest_path][task.chunks[i].chunk_index + 1].exists

\* the destination holds the bytes of the source, and the task is COMPLETED
CompletedIdentical(task_id) ==
    /\ task_id \in DOMAIN transfer_tasks
    /\ TaskStatus(task_id) = "COMPLETED"
    /\ dest_files[transfer_tasks[task_id].dest_path]
           = File(SourceData(transfer_tasks[task_id].source_path))

\* a worker has ended a run of the task that was not stopped by a pause
EndedTerminal(w, task_id) ==
    /\ worker[w].pc = "done"
    /\ worker[w].task_id = task_id
    /\ ~worker[w].paused_requested

StrictlyIncreasing(seq) == \A i \in 1..Len(seq) : \A j \in 1..Len(seq) : i < j => seq[i] < seq[j]

HappyEnd(task_id) ==
    /\ CompletedIdentical(task_id)
    /\ NoTempArtifacts(transfer_tasks[task_id])
    /\ \E w \in Workers :
          /\ EndedTerminal(w, task_id)
          /\ worker[w].completions =
                << [callback |-> transfer_tasks[task_id].completion_callback,
                    success |-> TRUE, error |-> ""] >>

\* C1: happy-path liveness.  A task admitted by StartTransfer and left alone (no
\* pause, cancel, resume, no I/O fault) is eventually dequeued and its run ends
\* with the task COMPLETED, the destination equal to the source, no temp
\* artifact left and the completion callback invoked once with success = true;
\* the task is never FAILED or PAUSED on the way.
C1_HappyPath ==
    /\ [](\A t \in DOMAIN transfer_tasks : TaskStatus(t) \notin {"FAILED", "PAUSED"})
    /\ [](\A w \in Workers : Len(worker[w].completions) <= 1)
    /\ \A t \in Tasks :
           (t \in DOMAIN transfer_tasks /\ TaskStatus(t) \in {"PENDING", "DOWNLOADING"})
               ~> HappyEnd(t)

C1_Witness ==
    /\ HappyEnd("t1")
    /\ transfer_tasks["t1"].source_path = "s1"
    /\ "t2" \in DOMAIN transfer_tasks

RunningOn(task_id) == {w \in Workers : Running(w) /\ worker[w].task_id = task_id}

\* C2: at most one worker is inside ProcessTransferTask for a task id, and a
\* task id is never queued twice nor queued while a worker executes it.
C2_SingleRun ==
    \A t \in Tasks :
        /\ Cardinality(RunningOn(t)) <= 1
        /\ Occurrences(task_queue, t) <= 1
        /\ ~(Occurrences(task_queue, t) > 0 /\ RunningOn(t) # {})

\* C3: a run that ends terminally (success or failure of any stage) has invoked
\* the completion callback exactly once, with the outcome of the run; a run
\* that ends because the worker observed PAUSED has not invoked it; no run
\* invokes it before its end.
C3_CallbackOncePerRun ==
    \A w \in Workers :
        /\ worker[w].pc # "done" => worker[w].completions = << >>
        /\ worker[w].pc = "done" =>
              IF worker[w].paused_requested
              THEN worker[w].completions = << >>
              ELSE /\ Len(worker[w].completions) = 1
                   /\ worker[w].completions[1].success = worker[w].success

C3_Witness ==
    \E w1 \in Workers : \E w2 \in Workers :
        /\ worker[w1].pc = "done" /\ worker[w1].paused_requested
        /\ worker[w1].completions = << >>
        /\ EndedTerminal(w2, "t1") /\ ~worker[w2].success
        /\ Len(worker[w2].completions) = 1

\* C4: whenever a task is COMPLETED, every chunk is COMPLETED, the destination
\* exists with size file_size and checksum file_checksum, and no temp artifact
\* of the task exists.
C4_CompletedInvariant ==
    \A t \in DOMAIN transfer_tasks :
        TaskStatus(t) = "COMPLETED" =>
            /\ \A i \in 1..Len(transfer_tasks[t].chunks) :
                   transfer_tasks[t].chunks[i].status = "COMPLETED"
            /\ VerifyFinalFile(transfer_tasks[t], dest_files[transfer_tasks[t].dest_path])
            /\ NoTempArtifacts(transfer_tasks[t])

\* C5: whenever a task is PAUSED, every chunk of it that is COMPLETED has its
\* temp artifact present with size actual_size and checksum md5_hash.
C5_PausedKeepsArtifacts ==
    \A t \in DOMAIN transfer_tasks :
        TaskStatus(t) = "PAUSED" =>
            \A i \in 1..Len(transfer_tasks[t].chunks) :
                transfer_tasks[t].chunks[i].status = "COMPLETED" =>
                    VerifyChunk(transfer_tasks[t], transfer_tasks[t].chunks[i])

\* C6: COMPLETED and FAILED are terminal: no step changes the status of a task
\* that is COMPLETED or FAILED.
C6_TerminalIsFinal ==
    [][\A t \in DOMAIN transfer_tasks :
          TaskStatus(t) \in {"COMPLETED", "FAILED"} =>
              transfer_tasks'[t].status = TaskStatus(t)]_vars

\* C7: while a task is PAUSED by a call made during its run, the worker running
\* it starts no further chunk and performs no merge.
C7_PauseStopsRun ==
    [][\A w \in Workers :
          (Running(w) /\ PauseObserved(worker[w].task_id)) =>
              /\ ~(worker'[w].merged /\ ~worker[w].merged)
              /\ ~(worker[w].pc = "loop" /\ worker'[w].pc = "transfer")]_vars

\* C8: the status of a PAUSED task changes only through a ResumeTransfer or a
\* StartTransfer made since the pause: a task started once and never resumed
\* stays PAUSED under every step other than ResumeTransfer.
C8_PausedIsStable ==
    [][\A t \in DOMAIN transfer_tasks :
          (TaskStatus(t) = "PAUSED" /\ total_transfers = 1 /\ resumes = 0 /\ resumes' = 0)
              => transfer_tasks'[t].status = "PAUSED"]_vars

\* C9: round trip.  StartTransfer, a pause observed at a chunk boundary, then
\* ResumeTransfer: the resumed run ends with the task COMPLETED and the
\* destination byte-identical to that of an uninterrupted run (the source);
\* every run that is not stopped by a pause ends so.
C9_RoundTrip ==
    /\ [](\A w \in Workers : EndedTerminal(w, "t1") => CompletedIdentical("t1"))
    /\ (resumes > 0) ~> CompletedIdentical("t1")

C9_Witness ==
    /\ resumes = 1
    /\ CompletedIdentical("t1")
    /\ transfer_tasks["t1"].source_path = "s1"
    /\ \E w \in Workers : EndedTerminal(w, "t1") /\ worker[w].attempts = << 2 >>

\* the run that a second StartTransfer enqueued: in the queue or on a worker
RestartedRuns(task_id) ==
    Occurrences(task_queue, task_id)
        + Cardinality({w \in Workers : worker[w].task_id = task_id
                                       /\ (Running(w) \/ EndedTerminal(w, task_id))})

\* C10: after CancelTransfer has stopped a run (task PAUSED), StartTransfer with
\* the same task id returns true, reattaches the callbacks and enqueues the
\* task exactly once; the new run attempts no chunk that is already COMPLETED,
\* transfers the remaining chunks in increasing order, each once, and ends
\* COMPLETED, reporting to the reattached callback.
C10_CancelThenStart ==
    /\ [](RunEndedPaused("t1") =>
             StartTransferResult("t1", transfer_tasks["t1"].source_path))
    /\ [](total_transfers = 2 => RestartedRuns("t1") = 1)
    /\ [][\A w \in Workers :
             Len(worker'[w].attempts) > Len(worker[w].attempts) =>
                 ChunkOf(w).status # "COMPLETED"]_vars
    /\ [](\A w \in Workers : StrictlyIncreasing(worker[w].attempts))
    /\ [](\A w \in Workers : (total_transfers = 2 /\ EndedTerminal(w, "t1")) =>
             /\ CompletedIdentical("t1")
             /\ transfer_tasks["t1"].transferred_bytes = transfer_tasks["t1"].file_size
             /\ worker[w].completions =
                    << [callback |-> SecondCallbacks.completion,
                        success |-> TRUE, error |-> ""] >>)
    /\ (total_transfers = 2) ~> CompletedIdentical("t1")

C10_Witness ==
    /\ total_transfers = 2
    /\ CompletedIdentical("t1")
    /\ transfer_tasks["t1"].source_path = "s1"
    /\ \E w \in Workers : /\ EndedTerminal(w, "t1")
                          /\ worker[w].attempts = << 1, 2 >>
                          /\ worker[w].completions[1].callback = SecondCallbacks.completion

ZeroByteTasks == {t \in DOMAIN transfer_tasks : transfer_tasks[t].source_path = "s0"}

\* C14: StartTransfer on an empty source creates a task with file_size 0 and no
\* chunk (none in the store either); no chunk transfer is ever attempted for it,
\* it is never FAILED, the only status changes are PENDING -> DOWNLOADING at the
\* dequeue and then COMPLETED, and it ends COMPLETED with an empty destination
\* file and a successful completion callback.
C14_ZeroByteSource ==
    /\ [](\A t \in ZeroByteTasks :
             /\ transfer_tasks[t].file_size = 0
             /\ transfer_tasks[t].chunks = << >>
             /\ db_rows[transfer_tasks[t].db_task_id].total_chunks = 0
             /\ TaskStatus(t) \in {"PENDING", "DOWNLOADING", "COMPLETED"}
             /\ \A w \in Workers : worker[w].task_id = t => worker[w].attempts = << >>)
    /\ [][\A t \in ZeroByteTasks :
             transfer_tasks'[t].status # TaskStatus(t) =>
                 \/ TaskStatus(t) = "PENDING" /\ transfer_tasks'[t].status = "DOWNLOADING"
                 \/ transfer_tasks'[t].status = "COMPLETED"]_vars
    /\ \A t \in Tasks :
           (t \in ZeroByteTasks /\ TaskStatus(t) # "COMPLETED")
               ~> (/\ t \in ZeroByteTasks
                   /\ TaskStatus(t) = "COMPLETED"
                   /\ dest_files[transfer_tasks[t].dest_path] = File(<< >>)
                   /\ \E w \in Workers : /\ EndedTerminal(w, t)
                                         /\ Len(worker[w].completions) = 1
                                         /\ worker[w].completions[1].success)

C14_Witness ==
    \E t \in ZeroByteTasks :
        /\ TaskStatus(t) = "COMPLETED"
        /\ dest_files[transfer_tasks[t].dest_path] = File(<< >>)
        /\ \E w \in Workers : EndedTerminal(w, t) /\ worker[w].merged

\* what a call that fails must leave alone
Untouched == UNCHANGED <<transfer_tasks, task_queue, db_rows, disk, worker, counters>>

\* C16: a StartTransfer call made when the manager is not initialized, or on a
\* source that does not exist, or on a task id that exists in a status other
\* than PAUSED, returns false and changes neither the task map (status,
\* destination, callbacks of every task), nor the queue, nor the store.
C16_StartTransferRejects ==
    [][ret'.op = "StartTransfer" =>
          \A t \in Tasks : \A s \in SourcePaths \cup {MissingPath} :
              \A cb \in {FirstCallbacks, SecondCallbacks} :
                  (/\ \/ ~initialized
                      \/ s \notin SourcePaths
                      \/ t \in DOMAIN transfer_tasks /\ TaskStatus(t) # "PAUSED"
                   /\ StartTransfer(t, s, cb))
                      => (~ret'.ok /\ Untouched)]_vars

C16_Witness ==
    /\ ret = Returned("StartTransfer", "t1", FALSE)
    /\ "t1" \in DOMAIN transfer_tasks
    /\ TaskStatus("t1") = "DOWNLOADING"
    /\ task_queue = << >>

\* C17: on a task id that is not in the task map PauseTransfer, ResumeTransfer,
\* CancelTransfer and GetTransferInfo return false, GetTransferStatus returns
\* FAILED and GetTransferProgress returns 0, and the call changes neither the
\* task map, nor the queue, nor the store.
C17_UnknownTaskId ==
    [][\A t \in Tasks :
          (t \notin DOMAIN transfer_tasks /\ ret'.task_id = t) =>
              /\ (PauseTransfer(t) \/ ResumeTransfer(t) \/ CancelTransfer(t)
                      \/ GetTransferInfo(t)) => (~ret'.ok /\ Untouched)
              /\ GetTransferStatus(t) => (ret'.status = "FAILED" /\ Untouched)
              /\ GetTransferProgress(t) => (ret'.progress = 0 /\ Untouched)]_vars

C17_Witness ==
    /\ ret.op = "GetTransferStatus" /\ ret.task_id = "t2" /\ ret.status = "FAILED"
    /\ "t1" \in DOMAIN transfer_tasks
    /\ "t2" \notin DOMAIN transfer_tasks
    /\ task_queue = << "t1" >>

\* C18: GetTransferProgress lies in [0,100]: transferred_bytes never exceeds
\* file_size, for every task in every reachable state.
C18_ProgressBounded ==
    \A t \in DOMAIN transfer_tasks :
        /\ transfer_tasks[t].transferred_bytes <= transfer_tasks[t].file_size
        /\ TransferProgress(t) \in 0..100

\* C13: a resumed run that reaches a chunk marked COMPLETED whose temp artifact
\* no longer verifies does not pass over it: the loop moves past a COMPLETED
\* chunk only if its artifact verifies (otherwise the chunk is transferred
\* again), and the run ends with the task COMPLETED and the destination equal
\* to the source, not FAILED.
C13_CorruptChunkRetransferred ==
    /\ [][\A w \in Workers :
             (/\ worker[w].pc = "loop" /\ worker'[w].pc = "loop"
              /\ worker'[w].task_id = worker[w].task_id
              /\ worker'[w].idx = worker[w].idx + 1)
                 => VerifyChunk(TaskOf(w), ChunkOf(w))]_vars
    /\ [](\A w \in Workers : EndedTerminal(w, "t1") => CompletedIdentical("t1"))

\* C11: after the process exited during a run and a manager was initialized
\* again on the same database, the store lists the transfer as incomplete and
\* StartTransfer with the same task id and the same paths returns true (the
\* reuse of the COMPLETED chunks and the COMPLETED end both rest on that call
\* being accepted).
C11_CrashReload ==
    \A s \in {"s1", "s2"} :
        (restarts > 0 /\ initialized /\ "t1" \notin DOMAIN transfer_tasks /\ DbIncomplete(s))
            => StartTransferResult("t1", s)

\* C12: after the manager that was transferring "t1" was shut down before the
\* transfer was complete and a new instance was initialized on the same
\* store, ResumeTransfer("t1") on the new instance returns true (the run to
\* the end, the successful callback and the full destination all rest on it).
C12_ResumeOnNewInstance ==
    (/\ restarts > 0
     /\ initialized
     /\ \E id \in 1..Len(db_rows) :
            db_rows[id].file_path = "s2" /\ db_rows[id].status # "COMPLETED")
        => KnownTaskResult("t1")

\* the error messages of the failures ProcessTransferTask tells apart
FailureMessages ==
    {"chunk transfer failed", "merge failed", "final verification failed", "interrupted"}

\* the one invocation of the completion callback a run of worker w has made
Reported(w, success, error) ==
    worker[w].completions =
        <<[callback |-> TaskOf(w).completion_callback, success |-> success, error |-> error]>>

C20_ShutdownTerminates ==
    /\ (initialized /\ shutdown_flag) ~> ~initialized
    /\ [](~initialized /\ shutdown_flag => transfer_tasks = << >> /\ task_queue = << >>)

\* C15: for concurrent StartTransfer calls with the same, previously unknown
\* task id (equal or different paths) at most one returns true, the id is
\* enqueued at most once, exactly one TransferTaskInfo is ever stored for the
\* id, and a stored TransferTaskInfo is never replaced or destroyed.
C15_StartTransferAtomic ==
    /\ [](Cardinality({c \in Callers : callers[c].result = "true"}) <= 1)
    /\ [](total_transfers <= 1)
    /\ [][\A t \in DOMAIN transfer_tasks :
              /\ t \in DOMAIN transfer_tasks'
              /\ transfer_tasks'[t].db_task_id = transfer_tasks[t].db_task_id]_vars

\* C21: PauseTransfer on a known task leaves it PAUSED, and a PauseTransfer on
\* a task that is PAUSED (as it is after a first call) changes neither the task
\* status nor the chunk statuses, the queue, the store or the temp artifacts.
C21_PauseIdempotent ==
    [][\A t \in Tasks :
          (ret'.op = "PauseTransfer" /\ t \in DOMAIN transfer_tasks /\ PauseTransfer(t)) =>
              /\ ret'.ok
              /\ TaskStatus(t)' = "PAUSED"
              /\ TaskStatus(t) = "PAUSED" =>
                     UNCHANGED <<transfer_tasks, task_queue, db_rows, disk, worker, counters>>
      ]_vars

\* a PauseTransfer has returned on a task whose run had already ended on a
\* pause, with the artifact of a chunk kept
C21_Witness ==
    /\ ret = Returned("PauseTransfer", "t1", TRUE)
    /\ RunEndedPaused("t1")
    /\ \E w \in Workers :
           /\ worker[w].pc = "done" /\ worker[w].task_id = "t1"
           /\ worker[w].paused_requested
    /\ ~NoTempArtifacts(transfer_tasks["t1"])
    /\ resumes > 0

\* what a pause request makes of the state it meets, apart from the return value
PauseOutcome(t) ==
    /\ transfer_tasks' = UpdatedTasks(t, "PAUSED")
    /\ db_rows' = UpdatedStore(t, "PAUSED")
    /\ UNCHANGED <<task_queue, disk, worker, counters>>

\* C22: from every reachable state CancelTransfer(t) and PauseTransfer(t) return
\* the same value and lead to the same task status (PAUSED for a known task),
\* queue, chunk statuses, store rows and files; CancelTransfer deletes no temp
\* artifact.
C22_CancelIsPause ==
    [][\A t \in Tasks :
          /\ (ret'.op = "CancelTransfer" /\ CancelTransfer(t)) =>
                 /\ ret'.ok = KnownTaskResult(t)
                 /\ PauseOutcome(t)
                 /\ t \in DOMAIN transfer_tasks => TaskStatus(t)' = "PAUSED"
          /\ (ret'.op = "PauseTransfer" /\ PauseTransfer(t)) =>
                 /\ ret'.ok = KnownTaskResult(t)
                 /\ PauseOutcome(t)
                 /\ t \in DOMAIN transfer_tasks => TaskStatus(t)' = "PAUSED"
      ]_vars

\* CancelTransfer has returned true on a task with a chunk artifact on disk,
\* while a worker is inside the run of the task
C22_Witness ==
    /\ ret = Returned("CancelTransfer", "t1", TRUE)
    /\ TaskStatus("t1") = "PAUSED"
    /\ ~NoTempArtifacts(transfer_tasks["t1"])
    /\ \E w \in Workers : worker[w].pc = "loop" /\ worker[w].task_id = "t1"

RECURSIVE CompletedBytes(_, _)
\* the sum of actual_size over the chunks from position i on that are COMPLETED
CompletedBytes(chunks, i) ==
    IF i > Len(chunks) THEN 0
    ELSE (IF chunks[i].status = "COMPLETED" THEN chunks[i].actual_size ELSE 0)
         + CompletedBytes(chunks, i + 1)

\* C23: the transferred_bytes of every task equals the sum of actual_size over
\* its chunks whose status is COMPLETED, also after failed verification
\* attempts and retries.  Stated for the states in which no worker is inside a
\* run of the task, where no update of the two sides can be half done.
C23_TransferredBytes ==
    \A t \in DOMAIN transfer_tasks :
        (\A w \in Workers : worker[w].task_id = t => ~Running(w)) =>
            transfer_tasks[t].transferred_bytes = CompletedBytes(transfer_tasks[t].chunks, 1)

RECURSIVE SumActualSize(_, _)
\* the sum of actual_size over the first n chunks
SumActualSize(chunks, n) ==
    IF n = 0 THEN 0 ELSE SumActualSize(chunks, n - 1) + chunks[n].actual_size

\* what the plan of a file must be like, whatever the sizes
PlanCovers(chunks, file_size, size) ==
    /\ Len(chunks) = (file_size + size - 1) \div size
    /\ \A i \in 1..Len(chunks) :
           /\ chunks[i].chunk_index = i - 1
           /\ chunks[i].offset = SumActualSize(chunks, i - 1)
           /\ i < Len(chunks) => chunks[i].actual_size = size
           /\ chunks[i].actual_size \in 1..size
    /\ SumActualSize(chunks, Len(chunks)) = file_size
    /\ (file_size > 0 /\ file_size % size = 0) => chunks[Len(chunks)].actual_size = size

\* C24 as it is written: ceil(file_size / chunk_size) chunks with indices 0,1,2,..,
\* contiguous offsets from 0, every chunk but the last of size chunk_size, the
\* sizes summing to file_size, a full last chunk when file_size is a multiple of
\* chunk_size, and a single chunk of size file_size whenever file_size < chunk_size.
C24_PlanAsWritten ==
    calc.done =>
        /\ PlanCovers(calc.chunks, calc.file_size, chunk_size_)
        /\ calc.file_size < chunk_size_ =>
               /\ Len(calc.chunks) = 1
               /\ calc.chunks[1].actual_size = calc.file_size

\* C24, amended: as written, but the single chunk of size file_size is there
\* when 0 < file_size < chunk_size; an empty file has no chunk at all.
C24_Plan ==
    calc.done =>
        /\ PlanCovers(calc.chunks, calc.file_size, chunk_size_)
        /\ (0 < calc.file_size /\ calc.file_size < chunk_size_) =>
               /\ Len(calc.chunks) = 1
               /\ calc.chunks[1].actual_size = calc.file_size
        /\ calc.file_size = 0 => calc.chunks = << >>

\* a plan of several full chunks and a short last one
C24_Witness ==
    /\ calc.done
    /\ Len(calc.chunks) = 3
    /\ chunk_size_ = 4
    /\ calc.chunks[3].actual_size = 2
    /\ calc.chunks[3].offset = 8

\* the attempts of the run of worker w on the chunk it is at
AttemptsHere(w) == Occurrences(worker[w].attempts, ChunkOf(w).chunk_index)

\* C25: a run attempts a chunk at most max_retries_ + 1 times and only while
\* every earlier attempt of it has failed; the run fails because of the chunk
\* only after exactly max_retries_ + 1 failed attempts, and the task is then
\* FAILED; with max_retries_ = 0 the first failed attempt ends the run.
C25_Retries ==
    \A w \in Workers :
        (/\ worker[w].task_id \in DOMAIN transfer_tasks
         /\ worker[w].idx \in 1..Len(transfer_tasks[worker[w].task_id].chunks)) =>
            /\ \A k \in 0..(MaxChunks - 1) :
                   Occurrences(worker[w].attempts, k) <= max_retries_ + 1
            /\ worker[w].pc = "transfer" =>
                   /\ worker[w].retry <= max_retries_
                   /\ AttemptsHere(w) = worker[w].retry
            /\ worker[w].pc = "verify" => AttemptsHere(w) = worker[w].retry + 1
            /\ worker[w].error_message = "chunk transfer failed" =>
                   /\ AttemptsHere(w) = max_retries_ + 1
                   /\ ChunkOf(w).retry_count = max_retries_ + 1
                   /\ worker[w].pc \in {"cleanup", "done"} => TaskOf(w).status = "FAILED"
            /\ (max_retries_ = 0 /\ ChunkOf(w).retry_count > 0) =>
                   /\ worker[w].error_message = "chunk transfer failed"
                   /\ AttemptsHere(w) = 1

\* with max_retries_ = 0, the task is FAILED after the one attempt of chunk 0
C25_Witness ==
    \E w \in Workers :
        /\ max_retries_ = 0
        /\ worker[w].pc = "done"
        /\ worker[w].attempts = <<0>>
        /\ "t1" \in DOMAIN transfer_tasks
        /\ transfer_tasks["t1"].status = "FAILED"

RECURSIVE ArtifactsByIndex(_, _, _)
\* the bytes of the temp artifacts of a destination, chunk_index k up to n - 1
ArtifactsByIndex(dest_path, k, n) ==
    IF k >= n THEN << >>
    ELSE temp_files[dest_path][k + 1].data \o ArtifactsByIndex(dest_path, k + 1, n)

\* worker w makes an attempt of a chunk in this step
Attempting(w) == Len(worker'[w].attempts) = Len(worker[w].attempts) + 1

\* worker w runs MergeChunks in this step
Merging(w) == ~worker[w].merged /\ worker'[w].merged

C27_EnqueueOnlyNewOrPaused ==
    [][Len(task_queue') > Len(task_queue) =>
          LET task_id == task_queue'[Len(task_queue')]
          IN  IF task_id \in DOMAIN transfer_tasks
              THEN transfer_tasks[task_id].status = "PAUSED"
              ELSE /\ task_id \in DOMAIN transfer_tasks'
                   /\ transfer_tasks'[task_id].status = "PENDING"
      ]_vars

\* C28: no thread is inside a store operation that locks db_mutex_ while it
\* holds tasks_mutex_; pause, resume and cancel have unlocked tasks_mutex_
\* before a store updater runs.
C28_NoStoreUnderTasksMutex ==
    \A c \in Callers :
        ~(Holds(c, "tasks_mutex") /\ Holds(c, "db_mutex") /\ callers[c].pc = "in_store")

\* the mutex a thread is blocked in lock() for, by its position
Wants(c) ==
    CASE callers[c].pc \in {"find", "update", "register", "attach"} -> "tasks_mutex"
      [] callers[c].pc \in {"store", "heartbeat", "db_create", "blocked_on_self"} -> "db_mutex"
      [] callers[c].pc \in {"requeue", "push", "enqueue"} -> "queue_mutex"
      [] OTHER -> "none"

\* thread c waits for a mutex that thread d holds
WaitsFor(c, d) == Wants(c) # "none" /\ mutex[Wants(c)] = d

\* C29: no threads wait in a cycle on tasks_mutex_, queue_mutex_ and db_mutex_:
\* there is no set of threads each of which waits for a mutex held by a thread
\* of the set.
C29_NoWaitCycle ==
    ~ \E S \in SUBSET Callers :
          /\ S # {}
          /\ \A c \in S : \E d \in S : WaitsFor(c, d)

\* C30: the store's CreateTransferTask always returns, and a task row in the
\* store has all its total_chunks chunk rows unless the call that inserts them
\* is still running; a call that fails leaves neither the row nor chunk rows.
C30_CreateIsOneUnit ==
    /\ \A c \in Callers : callers[c].pc # "blocked_on_self"
    /\ \A id \in 1..Len(db_rows) :
          \/ Len(db_rows[id].chunks) = db_rows[id].total_chunks
          \/ \E c \in Callers :
                /\ Holds(c, "db_mutex")
                /\ callers[c].db_task_id = id
                /\ callers[c].pc \in {"chunks", "relock"}

\* C31: the md5_hash of a chunk row is write-once: once it is not empty, no
\* later UpdateChunkStatus, with or without an md5_hash argument and whatever
\* the status, changes it.
C31_Md5WriteOnce ==
    [][\A id \in 1..Len(db_rows) : \A i \in 1..Len(db_rows[id].chunks) :
          (/\ db_rows[id].chunks[i].md5_hash # ""
           /\ id \in 1..Len(db_rows')
           /\ i \in 1..Len(db_rows'[id].chunks)) =>
              db_rows'[id].chunks[i].md5_hash = db_rows[id].chunks[i].md5_hash
      ]_vars

\* worker w is at a chunk of a task of the map
AtChunk(w) ==
    /\ worker[w].task_id \in DOMAIN transfer_tasks
    /\ worker[w].idx \in 1..Len(transfer_tasks[worker[w].task_id].chunks)

\* the status of the chunk of worker w in the store
StoredChunkStatus(w) ==
    db_rows[TaskOf(w).db_task_id].chunks[worker[w].idx].status

\* C32: a chunk is COMPLETED, in memory and in the store, only after its temp
\* artifact has passed VerifyChunk in that attempt: it is not COMPLETED while
\* the copy of the attempt is not verified yet, nor when the run has given the
\* chunk up after its last attempt failed.
C32_CompletedOnlyVerified ==
    \A w \in Workers :
        AtChunk(w) =>
            /\ worker[w].pc = "verify" =>
                   /\ ChunkOf(w).status # "COMPLETED"
                   /\ StoredChunkStatus(w) # "COMPLETED"
            /\ worker[w].error_message = "chunk transfer failed" =>
                   /\ ChunkOf(w).status # "COMPLETED"
                   /\ StoredChunkStatus(w) # "COMPLETED"

\* C33: a failed attempt of a chunk (retry_count goes up by one) leaves the
\* chunk FAILED in the store and its temp artifact removed.
C33_FailedAttempt ==
    [][\A w \in Workers :
          (/\ AtChunk(w)
           /\ worker[w].task_id \in DOMAIN transfer_tasks'
           /\ transfer_tasks'[worker[w].task_id].chunks[worker[w].idx].retry_count
                  = ChunkOf(w).retry_count + 1) =>
              /\ db_rows'[TaskOf(w).db_task_id].chunks[worker[w].idx].status = "FAILED"
              /\ ~temp_files'[TaskOf(w).dest_path][ChunkOf(w).chunk_index + 1].exists
      ]_vars

\* the workers inside ProcessTransferTask past the lookup of the task
Executing == {w \in Workers : Running(w)}

\* C35: the number of tasks being executed is the active_transfers counter and
\* lies between 0 and the number of worker threads; a worker takes one task id
\* off the queue at a time, and only when it is not inside a run.
C35_ConcurrencyBound ==
    /\ [](/\ Cardinality(Executing) = active_transfers
          /\ active_transfers \in 0..NumWorkers)
    /\ [][Len(task_queue') < Len(task_queue) =>
             /\ task_queue' = Tail(task_queue)
             /\ \E w \in Workers :
                   /\ ~Running(w)
                   /\ worker'[w].task_id = Head(task_queue)
                   /\ \A v \in Workers \ {w} : worker'[v] = worker[v]
         ]_vars

\* every worker thread is inside a run
C35_Witness ==
    /\ Executing = Workers
    /\ active_transfers = NumWorkers

\* C34: a store write (schema statement, insert, status update) that meets
\* busy/locked is executed again after the delay; a statement that stays busy is
\* executed max_retry_attempts_ + 1 times at most and the call then fails with
\* an error recorded; any other error fails the call without a retry; the call
\* succeeds exactly when its last execution succeeded.
C34_BusyRetried ==
    calc.pc = "returned" =>
        LET n == Len(calc.rcs)
        IN  /\ n \in 1..(calc.max_retry_attempts_ + 1)
            /\ \A i \in 1..(n - 1) : calc.rcs[i] \in BusyCodes
            /\ calc.delays = n - 1
            /\ calc.result <=> calc.rcs[n] = "SQLITE_OK"
            /\ ~calc.result => calc.error
            /\ calc.rcs[n] \in BusyCodes => n = calc.max_retry_attempts_ + 1

\* the tasks of a list
Listed(list) == {list[i] : i \in 1..Len(list)}

\* C36: DetectZombieTasks reports a task exactly when it is DOWNLOADING, older
\* than the zombie timeout and none of its chunks was updated within the last
\* five minutes.
C36_ZombieDetection ==
    [][(calc.pc # "cancel" /\ calc'.pc = "cancel") =>
          \A t \in Tasks :
              t \in Listed(calc'.zombie_tasks) <=>
                  /\ t \in DOMAIN transfer_tasks
                  /\ transfer_tasks[t].status = "DOWNLOADING"
                  /\ t \in calc'.old
                  /\ ~ \E i \in 1..Len(transfer_tasks[t].chunks) : <<t, i>> \in calc'.recent
      ]_vars

\* C37: CleanupZombieTasks sets each detected task to PAUSED, leaves its chunk
\* statuses and every file as they are, leaves the other tasks, their store
\* rows and the queue as they are, returns the number of tasks it paused and
\* adds that number to zombie_tasks_cleaned.
C37_CleanupFrame ==
    [][/\ (calc.pc = "cancel" /\ calc'.pc = "cancel"
                /\ calc'.zombie_tasks # calc.zombie_tasks) =>
             LET t == Head(calc.zombie_tasks)
             IN  /\ transfer_tasks'[t].status = "PAUSED"
                 /\ db_rows'[transfer_tasks[t].db_task_id].status = "PAUSED"
                 /\ transfer_tasks'[t].chunks = transfer_tasks[t].chunks
                 /\ db_rows'[transfer_tasks[t].db_task_id].chunks
                        = db_rows[transfer_tasks[t].db_task_id].chunks
                 /\ temp_files' = temp_files
                 /\ dest_files' = dest_files
                 /\ task_queue' = task_queue
                 /\ \A u \in DOMAIN transfer_tasks \ {t} :
                        /\ transfer_tasks'[u] = transfer_tasks[u]
                        /\ db_rows'[transfer_tasks[u].db_task_id]
                               = db_rows[transfer_tasks[u].db_task_id]
       /\ (calc.pc = "cancel" /\ calc'.pc = "returned") =>
             /\ calc'.result = Len(calc.detected)
             /\ calc'.zombie_tasks_cleaned = calc.zombie_tasks_cleaned + calc'.result
             /\ transfer_tasks' = transfer_tasks
             /\ temp_files' = temp_files
      ]_vars

\* a cleanup has paused a task that has a completed chunk, its artifact in place
C37_Witness ==
    /\ calc.pc = "returned"
    /\ calc.result = 1
    /\ calc.zombie_tasks_cleaned >= 1
    /\ calc.detected = <<"t1">>
    /\ "t2" \in DOMAIN transfer_tasks
    /\ transfer_tasks["t1"].status = "PAUSED"
    /\ transfer_tasks["t1"].chunks[1].status = "COMPLETED"
    /\ temp_files[DestPath("t1")][1].exists

\* the success_rate of GenerateStatisticsJson, in percent, rounded down
SuccessRate ==
    IF total_transfers > 0 THEN (completed_transfers * 100) \div total_transfers ELSE 0

\* C40: the runs that have ended in success or failure never outnumber the
\* transfers counted as started, so the reported success rate is within 0..100.
C40_CountersConsistent ==
    /\ completed_transfers + failed_transfers <= total_transfers
    /\ SuccessRate \in 0..100

\* a thread is inside UpdateTaskStatus for the task
Updating(task_id) ==
    \E c \in Callers :
        /\ callers[c].task_id = task_id
        /\ callers[c].op \in {"PauseTransfer", "ResumeTransfer", "CancelTransfer"}
        /\ callers[c].pc \in {"store", "in_store", "heartbeat", "memory"}

\* C39: whenever no UpdateTaskStatus call is under way for a task, the status
\* of its row in the store is its in-memory status, also when several threads
\* update the task at the same time.
C39_StoreMatchesMemory ==
    \A t \in DOMAIN transfer_tasks :
        (transfer_tasks[t].db_task_id \in 1..Len(db_rows) /\ ~Updating(t)) =>
            db_rows[transfer_tasks[t].db_task_id].status = transfer_tasks[t].status

\* one thread is between the store write and the memory write of a status while
\* another waits to write a different status, after an earlier update
C39_Witness ==
    \E c \in Callers, d \in Callers :
        /\ callers[c].pc = "memory"
        /\ callers[d].pc = "update"
        /\ callers[c].task_id = callers[d].task_id
        /\ callers[c].task_id \in DOMAIN transfer_tasks
        /\ StatusOf(callers[c].op) # StatusOf(callers[d].op)
        /\ callers[d].op # "UpdateChunkStatus"
        /\ transfer_tasks[callers[c].task_id].status = "PAUSED"
        /\ db_rows[transfer_tasks[callers[c].task_id].db_task_id].status = "DOWNLOADING"

\* the positions at which a thread reads or writes a field of a TransferTaskInfo
AccessesTaskInfo(c) == callers[c].pc \in {"progress", "reading", "memory"}

\* C38: a thread that reads or writes a field of a TransferTaskInfo holds
\* tasks_mutex_, so that no thread writes a field while another reads it.
C38_AccessUnderMutex ==
    /\ \A c \in Callers : AccessesTaskInfo(c) => Holds(c, "tasks_mutex")
    /\ ~ \E c \in Callers, d \in Callers :
           /\ callers[c].pc = "progress"
           /\ callers[d].pc = "reading"
           /\ callers[c].task_id = callers[d].task_id

====
